---- MODULE Spec2Model ----
(***************************************************************************)
(* Model of eslint-plugin-xss: the no-mixed-html rule (expression stack,   *)
(* candidate resolution, terminal extraction, validators), the syntax      *)
(* helpers of tree.ts and the rule table with its lookup cache of re.ts.   *)
(*                                                                         *)
(* Strings (identifier names, literal values, rule names, patterns) are    *)
(* sequences of one-character strings so that pattern matching, splitting  *)
(* and joining are computed rather than assumed.                           *)
(* A syntax tree is a nested record; a node reference is the path from the *)
(* root, a sequence of steps <<field, index>> (index 0 for a single child).*)
(***************************************************************************)
EXTENDS Integers, Sequences, FiniteSets, TLC

VARIABLES prog, events, functionRules, pc, exprStack, reports, cache, fault,
          lastNode, lastRules, lastHit, subject, answer

vars == <<prog, events, functionRules, pc, exprStack, reports, cache, fault,
          lastNode, lastRules, lastHit, subject, answer>>

(***************************************************************************)
(* Strings                                                                 *)
(***************************************************************************)
Str_html == <<"h","t","m","l">>
Str_htmlMsg == <<"h","t","m","l","M","s","g">>
Str_myHTML == <<"m","y","H","T","M","L">>
Str_x == <<"x">>
Str_y == <<"y">>
Str_a == <<"a">>
Str_b == <<"b">>
Str_c == <<"c">>
Str_f == <<"f">>
Str_msg == <<"m","s","g">>
Str_join == <<"j","o","i","n">>
Str_dotJoin == <<".","j","o","i","n">>
Str_toString == <<"t","o","S","t","r","i","n","g">>
Str_dotToString == <<".","t","o","S","t","r","i","n","g">>
Str_dotSubstr == <<".","s","u","b","s","t","r">>
Str_dotSubstring == <<".","s","u","b","s","t","r","i","n","g">>
Str_AsHtml == <<"A","s","H","t","m","l">>
Str_fAsHtml == <<"f","A","s","H","t","m","l">>
Str_makeHtml == <<"m","a","k","e","H","t","m","l">>
Str_make == <<"m","a","k","e">>
Str_this == <<"t","h","i","s">>
Str_empty == <<>>

LowerLetters ==
  {"a","b","c","d","e","f","g","h","i","j","k","l","m",
   "n","o","p","q","r","s","t","u","v","w","x","y","z"}

\* Case folding for the letters the model's names use.
ToLower(ch) ==
  CASE ch = "A" -> "a" [] ch = "B" -> "b" [] ch = "H" -> "h" [] ch = "L" -> "l"
    [] ch = "M" -> "m" [] ch = "S" -> "s" [] ch = "T" -> "t"
    [] OTHER -> ch

FoldCase(s) == [i \in 1..Len(s) |-> ToLower(s[i])]

\* String.prototype.split on the first separator: <<before, after>>.
RECURSIVE SplitAt(_, _, _)
SplitAt(s, sep, i) ==
  IF i > Len(s) THEN <<s, <<>>>>
  ELSE IF s[i] = sep THEN <<SubSeq(s, 1, i - 1), SubSeq(s, i + 1, Len(s))>>
  ELSE SplitAt(s, sep, i + 1)

\* Array.prototype.join(".") over a sequence of strings.
RECURSIVE JoinDot(_)
JoinDot(names) ==
  IF Len(names) = 0 THEN <<>>
  ELSE IF Len(names) = 1 THEN names[1]
  ELSE names[1] \o <<".">> \o JoinDot(Tail(names))

Contains(s, sub) ==
  \E i \in 1..(Len(s) - Len(sub) + 1) : SubSeq(s, i, i + Len(sub) - 1) = sub

(***************************************************************************)
(* re.ts                                                                   *)
(***************************************************************************)
toRegexp(str) ==
  LET pair == SplitAt(str, "/", 1)
  IN  [source |-> pair[1], flags |-> pair[2]]

\* RegExp.prototype.exec for a pattern of plain characters.
RegExec(regexp, input) ==
  IF Contains(regexp.flags, <<"i">>)
  THEN Contains(FoldCase(input), FoldCase(regexp.source))
  ELSE Contains(input, regexp.source)

any(input, regexps) ==
  \E i \in 1..Len(regexps) : RegExec(regexps[i], input)

\* The literal test with the `i` flag: /<\/?[a-z]/i.  C1 tells it apart
\* from the handler's test.
HtmlTagExecIgnoreCase(value) ==
  \E i \in 1..Len(value) :
    /\ value[i] = "<"
    /\ \/ (i + 1 <= Len(value) /\ ToLower(value[i + 1]) \in LowerLetters)
       \/ (i + 2 <= Len(value) /\ value[i + 1] = "/"
             /\ ToLower(value[i + 2]) \in LowerLetters)

\* The literal test /<\/?[a-z]/ of the Literal handler.
HtmlTagExec(value) ==
  \E i \in 1..Len(value) :
    /\ value[i] = "<"
    /\ \/ (i + 1 <= Len(value) /\ value[i + 1] \in LowerLetters)
       \/ (i + 2 <= Len(value) /\ value[i + 1] = "/"
             /\ value[i + 2] \in LowerLetters)

(***************************************************************************)
(* Default options of the rule.                                            *)
(***************************************************************************)
htmlVariableRules == << <<"h","t","m","l","/","i">> >>
htmlFunctionRulesOption == << Str_AsHtml >>
htmlVariableRulesRegex == [i \in 1..Len(htmlVariableRules) |-> toRegexp(htmlVariableRules[i])]
htmlFunctionRules == [i \in 1..Len(htmlFunctionRulesOption) |-> toRegexp(htmlFunctionRulesOption[i])]

\* A function policy; the empty object {} is EmptyRules.
EmptyRules ==
  [passthrough |-> FALSE, obj |-> FALSE, args |-> FALSE,
   htmlInput |-> FALSE, htmlOutput |-> FALSE, safeAll |-> FALSE, safe |-> {}]

PassBoth == [EmptyRules EXCEPT !.passthrough = TRUE, !.obj = TRUE, !.args = TRUE]
PassObj == [EmptyRules EXCEPT !.passthrough = TRUE, !.obj = TRUE]
PassArgs == [EmptyRules EXCEPT !.passthrough = TRUE, !.args = TRUE]
HtmlInput == [EmptyRules EXCEPT !.htmlInput = TRUE]
HtmlOutput == [EmptyRules EXCEPT !.htmlOutput = TRUE]

defaultFunctionRules ==
  (Str_dotJoin :> PassBoth) @@ (Str_dotToString :> PassObj)
    @@ (Str_dotSubstr :> PassObj) @@ (Str_dotSubstring :> PassObj)

(***************************************************************************)
(* Syntax trees (estree).  Every node carries `safe` (a leading comment    *)
(* matching /^\s*safe\s*$/i is attached to it) and `paren` (the node is     *)
(* wrapped in parentheses).  An absent child is NullNode.                  *)
(***************************************************************************)
NullNode == [type |-> "Null"]
NullRef == << <<"null", 0>> >>

Base(t) == [type |-> t, safe |-> FALSE, paren |-> FALSE]
Literal(v) == Base("Literal") @@ [value |-> v, regex |-> FALSE]
RegexLiteral(v) == Base("Literal") @@ [value |-> v, regex |-> TRUE]
Identifier(n) == Base("Identifier") @@ [name |-> n]
ThisExpression == Base("ThisExpression")
BinaryExpression(l, r) == Base("BinaryExpression") @@ [left |-> l, right |-> r]
CallExpression(f, as) == Base("CallExpression") @@ [callee |-> f, arguments |-> as]
MemberExpression(o, p) ==
  Base("MemberExpression") @@ [object |-> o, property |-> p, computed |-> FALSE]
ComputedMember(o, p) ==
  Base("MemberExpression") @@ [object |-> o, property |-> p, computed |-> TRUE]
ArrayExpression(es) == Base("ArrayExpression") @@ [elements |-> es]
ConditionalExpression(t, c, a) ==
  Base("ConditionalExpression") @@ [test |-> t, consequent |-> c, alternate |-> a]
AssignmentExpression(l, r) == Base("AssignmentExpression") @@ [left |-> l, right |-> r]
VariableDeclarator(i, e) == Base("VariableDeclarator") @@ [id |-> i, init |-> e]
VariableDeclaration(ds) == Base("VariableDeclaration") @@ [declarations |-> ds]
Property(k, v) == Base("Property") @@ [key |-> k, value |-> v]
ObjectExpression(ps) == Base("ObjectExpression") @@ [properties |-> ps]
ReturnStatement(e) == Base("ReturnStatement") @@ [argument |-> e]
BlockStatement(ss) == Base("BlockStatement") @@ [body |-> ss]
FunctionDeclaration(i, ss) ==
  Base("FunctionDeclaration") @@ [id |-> i, body |-> BlockStatement(ss)]
FunctionExpression(i, ss) ==
  Base("FunctionExpression") @@ [id |-> i, body |-> BlockStatement(ss)]
ArrowFunctionExpression(e) ==
  Base("ArrowFunctionExpression") @@ [id |-> NullNode, body |-> e]
ExpressionStatement(e) == Base("ExpressionStatement") @@ [expression |-> e]
Program(ss) == Base("Program") @@ [body |-> ss]

Safe(n) == [n EXCEPT !.safe = TRUE]
Paren(n) == [n EXCEPT !.paren = TRUE]

\* node.field, undefined (NullNode) when the node has no such field.
Get(n, f) == IF f \in DOMAIN n THEN n[f] ELSE NullNode
Truthy(n) == n # NullNode

\* The children of a node kind in the order the traversal visits them:
\* <<field, isList>>.
VisitorKeys(t) ==
  CASE t = "Program" -> << <<"body", TRUE>> >>
    [] t = "BlockStatement" -> << <<"body", TRUE>> >>
    [] t = "ExpressionStatement" -> << <<"expression", FALSE>> >>
    [] t = "VariableDeclaration" -> << <<"declarations", TRUE>> >>
    [] t = "VariableDeclarator" -> << <<"id", FALSE>>, <<"init", FALSE>> >>
    [] t = "AssignmentExpression" -> << <<"left", FALSE>>, <<"right", FALSE>> >>
    [] t = "BinaryExpression" -> << <<"left", FALSE>>, <<"right", FALSE>> >>
    [] t = "CallExpression" -> << <<"callee", FALSE>>, <<"arguments", TRUE>> >>
    [] t = "MemberExpression" -> << <<"object", FALSE>>, <<"property", FALSE>> >>
    [] t = "ArrayExpression" -> << <<"elements", TRUE>> >>
    [] t = "ConditionalExpression" ->
         << <<"test", FALSE>>, <<"consequent", FALSE>>, <<"alternate", FALSE>> >>
    [] t = "Property" -> << <<"key", FALSE>>, <<"value", FALSE>> >>
    [] t = "ObjectExpression" -> << <<"properties", TRUE>> >>
    [] t = "ReturnStatement" -> << <<"argument", FALSE>> >>
    [] t = "FunctionDeclaration" -> << <<"id", FALSE>>, <<"body", FALSE>> >>
    [] t = "FunctionExpression" -> << <<"id", FALSE>>, <<"body", FALSE>> >>
    [] t = "ArrowFunctionExpression" -> << <<"body", FALSE>> >>
    [] OTHER -> << >>

RECURSIVE Flatten(_)
Flatten(ss) == IF Len(ss) = 0 THEN <<>> ELSE Head(ss) \o Flatten(Tail(ss))

\* The steps to the (present) children of node n, in visiting order.
ChildSteps(n) ==
  LET keys == VisitorKeys(n.type)
      one(k) ==
        IF k[2]
        THEN LET l == n[k[1]]
                 sel == [i \in 1..Len(l) |->
                           IF Truthy(l[i]) THEN << <<k[1], i>> >> ELSE <<>>]
             IN  Flatten(sel)
        ELSE IF Truthy(n[k[1]]) THEN << <<k[1], 0>> >> ELSE <<>>
  IN  Flatten([j \in 1..Len(keys) |-> one(keys[j])])

Step(n, s) == IF s[2] = 0 THEN n[s[1]] ELSE n[s[1]][s[2]]

RECURSIVE At(_, _)
At(tree, path) ==
  IF Len(path) = 0 THEN tree ELSE At(Step(tree, Head(path)), Tail(path))

\* The node a reference denotes in the program under analysis.
Node(ref) == IF ref = NullRef THEN NullNode ELSE At(prog, ref)
TypeOf(ref) == Node(ref).type

\* node.parent; the Program node has none.
Parent(ref) == IF Len(ref) = 0 THEN NullRef ELSE SubSeq(ref, 1, Len(ref) - 1)

\* Reference to node.field of the node at ref (NullRef when absent).
Child(ref, f) ==
  IF Truthy(Get(Node(ref), f)) THEN Append(ref, <<f, 0>>) ELSE NullRef

\* References to the entries of a list child (NullRef for a hole).
ChildList(ref, f) ==
  LET l == Node(ref)[f]
  IN  [i \in 1..Len(l) |-> IF Truthy(l[i]) THEN Append(ref, <<f, i>>) ELSE NullRef]

\* The enter/exit events of a depth-first traversal of the subtree at ref.
RECURSIVE Events(_, _)
Events(tree, ref) ==
  LET steps == ChildSteps(tree)
  IN  << [kind |-> "enter", node |-> ref] >>
        \o Flatten([i \in 1..Len(steps) |->
                      Events(Step(tree, steps[i]), Append(ref, steps[i]))])
        \o << [kind |-> "exit", node |-> ref] >>

(***************************************************************************)
(* tree.ts (helpers that only look downwards take the node itself)         *)
(***************************************************************************)
isSimpleCallExpression(n) == n.type = "CallExpression"
isMemberExpression(n) == n.type = "MemberExpression"
isIdentifier(n) == n.type = "Identifier"

\* The member unwrapping the other way round: a non-computed access to its
\* object, a computed access to its property.  C11 tells it apart.
getIdentifierObjectFirst(node) ==
  LET n1 == IF isSimpleCallExpression(node) THEN node.callee ELSE node
      n2 == IF isMemberExpression(n1)
            THEN (IF n1.computed THEN n1.property ELSE n1.object)
            ELSE n1
  IN  IF isIdentifier(n2) THEN n2 ELSE NullNode

getIdentifier(node) ==
  LET n1 == IF isSimpleCallExpression(node) THEN node.callee ELSE node
      n2 == IF isMemberExpression(n1)
            THEN (IF n1.computed THEN n1.object ELSE n1.property)
            ELSE n1
  IN  IF isIdentifier(n2) THEN n2 ELSE NullNode

getNodeName(node) ==
  IF node.type = "ThisExpression" THEN Str_this
  ELSE LET id == getIdentifier(node)
       IN  IF Truthy(id) THEN id.name ELSE Str_empty

\* property.name: undefined (joined as the empty string) unless an Identifier.
NameOrEmpty(n) == IF "name" \in DOMAIN n THEN n.name ELSE Str_empty

RECURSIVE FullNameStack(_)
FullNameStack(func) ==
  IF isMemberExpression(func)
  THEN FullNameStack(func.object) \o << NameOrEmpty(func.property) >>
  ELSE IF isIdentifier(func) THEN << func.name >> ELSE << >>

getFullItemName(func) ==
  LET f == IF isSimpleCallExpression(func) THEN func.callee ELSE func
  IN  JoinDot(FullNameStack(f))

\* The loop of getRuleNames: func walks down .object, memberIdentifiers and
\* names grow at the front.
\* A computed segment that ends the walk (break instead of continue).
\* C10 tells it apart.
AfterComputedStop(func) == NullNode

\* `continue` on a computed segment: the loop goes on with func.object.
AfterComputed(func) == Get(func, "object")

RECURSIVE RuleNamesLoop(_, _, _)
RuleNamesLoop(func, memberIdentifiers, names) ==
  IF ~Truthy(func) THEN names
  ELSE IF "computed" \in DOMAIN func /\ func.computed
  THEN RuleNamesLoop(AfterComputed(func), memberIdentifiers, names)
  ELSE LET identifier == getIdentifier(func)
       IN  IF ~Truthy(identifier) THEN names
           ELSE LET mi == << identifier.name >> \o memberIdentifiers
                    prefix == IF Truthy(Get(func, "object")) THEN <<".">> ELSE <<>>
                IN  RuleNamesLoop(Get(func, "object"), mi,
                                  << prefix \o JoinDot(mi) >> \o names)

getRuleNames(func) ==
  LET f == IF isSimpleCallExpression(func) THEN func.callee ELSE func
  IN  RuleNamesLoop(f, <<>>, <<>>)

\* Every position counted as a parameter.  C14 tells it apart.
isParameterAlways(node, expr) == TRUE

\* isParameter(node, expr): node and expr are references, expr the parent.
isParameter(node, expr) ==
  LET t == TypeOf(expr)
  IN  CASE t = "CallExpression" ->
             \E i \in 1..Len(Node(expr).arguments) :
               ChildList(expr, "arguments")[i] = node
        [] t = "AssignmentExpression" -> Child(expr, "right") = node
        [] t = "VariableDeclarator" -> Child(expr, "init") = node
        [] t = "Property" -> Child(expr, "value") = node
        [] t = "ArrayExpression" ->
             \E i \in 1..Len(Node(expr).elements) :
               ChildList(expr, "elements")[i] = node
        [] t = "FunctionExpression" -> FALSE
        [] t = "ConditionalExpression" ->
             node = Child(expr, "alternate") \/ node = Child(expr, "consequent")
        [] t = "ArrowFunctionExpression" -> node = Child(expr, "body")
        [] OTHER -> TRUE

isFunctionNode(t) ==
  t \in {"FunctionExpression", "FunctionDeclaration", "ArrowFunctionExpression"}

RECURSIVE ClosestFunction(_)
ClosestFunction(ref) ==
  IF ref = NullRef THEN NullRef
  ELSE IF isFunctionNode(TypeOf(ref)) THEN ref
  ELSE ClosestFunction(Parent(ref))

\* Reference to the identifier (or assignment target) naming the function
\* that encloses the node; NullRef when there is none.
getParentFunctionIdentifier(ref) ==
  LET func == ClosestFunction(ref)
  IN  IF func = NullRef THEN NullRef
      ELSE IF Child(func, "id") # NullRef THEN Child(func, "id")
      ELSE LET parent == Parent(func)
           IN  IF parent = NullRef THEN NullRef
               ELSE IF TypeOf(parent) = "VariableDeclarator" THEN Child(parent, "id")
               ELSE IF TypeOf(parent) = "AssignmentExpression" THEN Child(parent, "left")
               ELSE NullRef

(***************************************************************************)
(* re.ts: Rules.  data.rules is the variable functionRules, data.cache the *)
(* variable cache; a lookup yields the rules and the cache after it.       *)
(* Intermediate results are handed on as operator arguments.               *)
(***************************************************************************)
\* The loop `for (i = 0; !rules && i < partialNames.length; i++)`.
RECURSIVE FirstRules(_, _)
FirstRules(data, partialNames) ==
  IF Len(partialNames) = 0 THEN EmptyRules
  ELSE IF Head(partialNames) \in DOMAIN data THEN data[Head(partialNames)]
  ELSE FirstRules(data, Tail(partialNames))

\* return (data.cache[fullName] = rules || {})
CacheStore(c, fullName, rules) ==
  [rules |-> rules, cache |-> (fullName :> rules) @@ c, hit |-> FALSE]

CacheLookup(c, node, fullName) ==
  IF fullName \in DOMAIN c
  THEN [rules |-> c[fullName], cache |-> c, hit |-> TRUE]
  ELSE CacheStore(c, fullName, FirstRules(functionRules, getRuleNames(node)))

getWithCache(c, node) == CacheLookup(c, node, getFullItemName(node))

getFunctionRules(c, node) == getWithCache(c, node)

NoRules(c) == [rules |-> EmptyRules, cache |-> c, hit |-> FALSE]

RulesGet(c, node) ==
  IF node.type = "CallExpression" THEN getFunctionRules(c, node) ELSE NoRules(c)

(***************************************************************************)
(* rules/no-mixed-html.ts                                                  *)
(***************************************************************************)
\* getPassthrough that never finds a passthrough policy, so that the call
\* itself is the terminal.  C5 tells it apart.
getPassthroughNever(c, node) == NoRules(c)

\* getPassthrough of a non-null node: false (no policy) unless a call.
getPassthrough(c, node) ==
  IF node.type # "CallExpression" THEN NoRules(c) ELSE getFunctionRules(c, node)

MatchesName(id, regexps) ==
  IF ~Truthy(id) THEN FALSE ELSE any(id.name, regexps)

isHtmlVariable(node) == MatchesName(getIdentifier(node), htmlVariableRulesRegex)

isHtmlFunction(node) == MatchesName(getIdentifier(node), htmlFunctionRules)

\* isHtmlOutputFunction without the naming patterns (configured policies
\* only).  C2 tells it apart.
HtmlOutputByPolicyOnly(r, func) ==
  [v |-> r.rules.htmlOutput, cache |-> r.cache]

HtmlOutputOf(r, func) ==
  [v |-> r.rules.htmlOutput \/ any(getFullItemName(func), htmlFunctionRules),
   cache |-> r.cache]

isHtmlOutputFunction(c, func) == HtmlOutputOf(getFunctionRules(c, func), func)

HtmlInputOf(r) == [v |-> r.rules.htmlInput, cache |-> r.cache]

functionAcceptsHtml(c, func) == HtmlInputOf(getFunctionRules(c, func))

\* The token before a node's first token: "(" , "none" (the node starts the
\* file) or "other".
StartsWithParent(s, t) ==
  \/ t = "Program" /\ s = <<"body", 1>>
  \/ t = "ExpressionStatement" /\ s[1] = "expression"
  \/ t \in {"BinaryExpression", "AssignmentExpression"} /\ s[1] = "left"
  \/ t = "CallExpression" /\ s[1] = "callee"
  \/ t = "MemberExpression" /\ s[1] = "object"
  \/ t = "ConditionalExpression" /\ s[1] = "test"

RECURSIVE getTokenBefore(_)
getTokenBefore(ref) ==
  IF Node(ref).paren THEN "("
  ELSE IF Len(ref) = 0 THEN "none"
  ELSE IF StartsWithParent(ref[Len(ref)], TypeOf(Parent(ref)))
  THEN getTokenBefore(Parent(ref))
  ELSE IF TypeOf(Parent(ref)) \in {"CallExpression", "NewExpression"}
          /\ ref[Len(ref)] = <<"arguments", 1>>
  THEN "("
  ELSE "other"

\* prevToken.type === "Punctuator" && prevToken.value === "("
hasParentheses(prevToken) == prevToken = "("

nodeHasSafeComment(ref) == Node(ref).safe

FaultRef == << <<"fault", 0>> >>

\* The loop of getCommentParent over unparenthesized binary expressions;
\* FaultRef when hasParentheses dereferences an absent token.
RECURSIVE ClosestParenthesized(_)
ClosestParenthesized(parent) ==
  IF parent = NullRef THEN NullRef
  ELSE IF TypeOf(parent) # "BinaryExpression" THEN NullRef
  ELSE IF getTokenBefore(parent) = "none" THEN FaultRef
  ELSE IF hasParentheses(getTokenBefore(parent)) THEN parent
  ELSE ClosestParenthesized(Parent(parent))

CommentParentOf(ref, parent) ==
  IF parent = NullRef THEN NullRef
  ELSE IF TypeOf(parent) = "CallExpression" THEN NullRef
  ELSE IF TypeOf(parent) = "BinaryExpression"
  THEN IF ref = Child(parent, "left") THEN parent
       ELSE ClosestParenthesized(parent)
  ELSE parent

getCommentParent(ref) == CommentParentOf(ref, Parent(ref))

\* The kinds isCommentedSafe would walk through if declarations and
\* declarators carried comments too.  C4 tells it apart.
CommentTypesWithDeclarations ==
  {"ArrayExpression", "Identifier", "Literal", "CallExpression",
   "BinaryExpression", "MemberExpression", "VariableDeclarator",
   "VariableDeclaration"}

CommentTypes ==
  {"ArrayExpression", "Identifier", "Literal", "CallExpression",
   "BinaryExpression", "MemberExpression"}

\* isCommentedSafe: "safe", "unsafe" or "fault".
RECURSIVE CommentedSafe(_)
CommentedSafe(ref) ==
  IF ref = FaultRef THEN "fault"
  ELSE IF ref = NullRef THEN "unsafe"
  ELSE IF TypeOf(ref) \notin CommentTypes THEN "unsafe"
  ELSE IF nodeHasSafeComment(ref) THEN "safe"
  ELSE CommentedSafe(getCommentParent(ref))

isCommentedSafe(ref) == CommentedSafe(ref) = "safe"

Verdict(v, c, f) == [v |-> v, cache |-> c, fault |-> f]

\* isXssSafe after its isCommentedSafe test (cs): [v, cache, fault].
XssSafeBy(c, ref, t, cs) ==
  IF cs = "fault" THEN Verdict(FALSE, c, TRUE)
  ELSE IF cs = "safe" THEN Verdict(TRUE, c, FALSE)
  ELSE IF t \in {"Literal", "FunctionExpression"} THEN Verdict(TRUE, c, FALSE)
  ELSE IF t \in {"Identifier", "MemberExpression"}
  THEN Verdict(isHtmlVariable(Node(ref)), c, FALSE)
  ELSE IF t = "CallExpression"
  THEN isHtmlOutputFunction(c, Node(ref).callee) @@ [fault |-> FALSE]
  ELSE Verdict(FALSE, c, FALSE)

isXssSafe(c, ref) == XssSafeBy(c, ref, TypeOf(ref), CommentedSafe(ref))

TerminalTypes ==
  {"CallExpression", "NewExpression", "ThisExpression", "ObjectExpression",
   "FunctionExpression", "UnaryExpression", "UpdateExpression",
   "MemberExpression", "SequenceExpression", "Literal", "Identifier"}

WithCache(acc, c) == [acc EXCEPT !.cache = c]
Faulted(acc) == [acc EXCEPT !.fault = TRUE]

\* An array literal as a terminal at the top level only, and unfolded once
\* the extraction has recursed.  C16 tells it apart.
IsTerminalAtTopOnly(t, hasRecursed) ==
  t \in TerminalTypes \/ (~hasRecursed /\ t = "ArrayExpression")

\* The test of the first branch: a basic expression, or an array literal
\* once the extraction has recursed into an inner structure.
IsTerminal(t, hasRecursed) ==
  t \in TerminalTypes \/ (hasRecursed /\ t = "ArrayExpression")

\* getDescendants with its accumulator acc = [children, cache, fault];
\* DescendantsBy is its body once getPassthrough(node) is known (pt).
RECURSIVE getDescendants(_, _, _), DescendantsOfEach(_, _, _),
          DescendantsBy(_, _, _, _, _), DescendantsOfArgs(_, _, _, _)
getDescendants(acc, ref, hasRecursed) ==
  IF acc.fault THEN acc
  ELSE IF ref = NullRef THEN Faulted(acc)
  ELSE DescendantsBy(acc, ref, hasRecursed, TypeOf(ref),
                     getPassthrough(acc.cache, Node(ref)))

\* Only the left operand of a concatenation.  C6 tells it apart from the
\* BinaryExpression branch.
DescendantsOfLeftOperand(acc, ref) ==
  getDescendants(acc, Child(ref, "left"), TRUE)

\* The BinaryExpression branch: left, then right, both as inner structures.
DescendantsOfBinary(acc, ref) ==
  getDescendants(getDescendants(acc, Child(ref, "left"), TRUE),
                 Child(ref, "right"), TRUE)

DescendantsBy(acc, ref, hasRecursed, t, pt) ==
  IF pt.rules.passthrough
  THEN DescendantsOfArgs(
         IF pt.rules.obj
         THEN getDescendants(WithCache(acc, pt.cache),
                             Child(Child(ref, "callee"), "object"), hasRecursed)
         ELSE WithCache(acc, pt.cache),
         ref, hasRecursed, pt.rules.args)
  ELSE IF IsTerminal(t, hasRecursed)
  THEN [acc EXCEPT !.cache = pt.cache, !.children = Append(@, ref)]
  ELSE IF t = "ArrayExpression"
  THEN DescendantsOfEach(WithCache(acc, pt.cache), ChildList(ref, "elements"), TRUE)
  ELSE IF t = "BinaryExpression"
  THEN DescendantsOfBinary(WithCache(acc, pt.cache), ref)
  ELSE IF t = "AssignmentExpression"
  THEN getDescendants(WithCache(acc, pt.cache), Child(ref, "left"), hasRecursed)
  ELSE IF t = "ConditionalExpression"
  THEN getDescendants(
         getDescendants(WithCache(acc, pt.cache), Child(ref, "alternate"), hasRecursed),
         Child(ref, "consequent"), hasRecursed)
  ELSE WithCache(acc, pt.cache)

DescendantsOfArgs(acc, ref, hasRecursed, passArgs) ==
  IF passArgs /\ ~acc.fault
  THEN DescendantsOfEach(acc, ChildList(ref, "arguments"), hasRecursed)
  ELSE acc

DescendantsOfEach(acc, refs, hasRecursed) ==
  IF Len(refs) = 0 THEN acc
  ELSE DescendantsOfEach(getDescendants(acc, Head(refs), hasRecursed),
                         Tail(refs), hasRecursed)

Report(ref, msg) == [node |-> ref, message |-> msg]

\* context.report after a safety verdict; m = [reports, cache, fault].
ReportUnless(m, safe, ref, msg) ==
  IF safe.fault THEN [m EXCEPT !.fault = TRUE]
  ELSE IF safe.v THEN [m EXCEPT !.cache = safe.cache]
  ELSE [m EXCEPT !.cache = safe.cache, !.reports = Append(@, Report(ref, msg))]

\* A round that does not consult the target's safe-allowlist.  C12 tells it
\* apart.
CheckChildWithoutAllowlist(m, childNode, targetRules) ==
  IF TypeOf(childNode) = "CallExpression"
  THEN ReportUnless(m, isXssSafe(m.cache, childNode), Child(childNode, "callee"),
                    "UnencodedReturnValue")
  ELSE ReportUnless(m, isXssSafe(m.cache, childNode), childNode, "UnencodedInput")

\* One round of the forEach of checkForXss.
CheckChild(m, childNode, targetRules) ==
  IF targetRules.safeAll THEN m
  ELSE IF getNodeName(Node(childNode)) \in targetRules.safe THEN m
  ELSE IF TypeOf(childNode) = "CallExpression"
  THEN ReportUnless(m, isXssSafe(m.cache, childNode), Child(childNode, "callee"),
                    "UnencodedReturnValue")
  ELSE ReportUnless(m, isXssSafe(m.cache, childNode), childNode, "UnencodedInput")

RECURSIVE CheckEachChild(_, _, _)
CheckEachChild(m, nodes, targetRules) ==
  IF m.fault \/ Len(nodes) = 0 THEN m
  ELSE CheckEachChild(CheckChild(m, Head(nodes), targetRules), Tail(nodes), targetRules)

CheckNodes(m, nodes, targetRules) ==
  IF nodes.fault THEN [m EXCEPT !.fault = TRUE, !.cache = nodes.cache]
  ELSE CheckEachChild([m EXCEPT !.cache = nodes.cache], nodes.children, targetRules)

CheckAgainst(m, node, targetRules) ==
  CheckNodes(m,
             getDescendants([children |-> <<>>, cache |-> targetRules.cache,
                             fault |-> FALSE], node, FALSE),
             targetRules.rules)

checkForXss(m, node, target) ==
  IF m.fault THEN m
  ELSE IF node = NullRef THEN [m EXCEPT !.fault = TRUE]
  ELSE IF TypeOf(node) \in {"FunctionExpression", "ObjectExpression"} THEN m
  ELSE CheckAgainst(m, node, RulesGet(m.cache, Node(target)))

RECURSIVE CheckEachArgument(_, _, _)
CheckEachArgument(m, argRefs, target) ==
  IF Len(argRefs) = 0 THEN m
  ELSE CheckEachArgument(checkForXss(m, Head(argRefs), target), Tail(argRefs), target)

Plain(b, c) == [v |-> b, cache |-> c]

NamedHtmlFunction(func, c) ==
  IF func = NullRef THEN Plain(FALSE, c) ELSE Plain(isHtmlFunction(Node(func)), c)

\* usesHtml: [v, cache].
RECURSIVE usesHtml(_, _)
usesHtml(c, ref) ==
  CASE TypeOf(ref) = "CallExpression" -> functionAcceptsHtml(c, Node(ref).callee)
    [] TypeOf(ref) = "AssignmentExpression" -> Plain(isHtmlVariable(Node(ref).left), c)
    [] TypeOf(ref) = "VariableDeclarator" -> Plain(isHtmlVariable(Node(ref).id), c)
    [] TypeOf(ref) = "Property" -> Plain(isHtmlVariable(Node(ref).key), c)
    [] TypeOf(ref) = "ArrayExpression" -> usesHtml(c, Parent(ref))
    [] TypeOf(ref) \in {"ReturnStatement", "ArrowFunctionExpression"} ->
         NamedHtmlFunction(getParentFunctionIdentifier(ref), c)
    [] OTHER -> Plain(FALSE, c)

checkHtmlVariable(m, node) ==
  IF m.fault THEN m
  ELSE ReportUnless(m, isXssSafe(m.cache, node), node, "NonHtmlVariable")

checkHtmlFunction(m, node, faultNode) ==
  IF m.fault THEN m
  ELSE ReportUnless(m, isXssSafe(m.cache, node), faultNode, "NonHtmlFunction")

checkFunctionAcceptsHtml(m, node) ==
  IF m.fault THEN m
  ELSE ReportUnless(m, functionAcceptsHtml(m.cache, Node(node)) @@ [fault |-> FALSE],
                    node, "HtmlPassedIn")

\* canInfectXss: "true", "false" or "fault" (parent.parent ran off the root).
RECURSIVE ParameterChain(_, _)
ParameterChain(child, top) ==
  IF Parent(child) = NullRef THEN "fault"
  ELSE IF ~isParameter(child, Parent(child)) THEN "false"
  ELSE IF Parent(child) = top THEN "true"
  ELSE ParameterChain(Parent(child), top)

canInfectXss(stack, node) ==
  IF Len(stack) = 0 THEN "false"
  ELSE ParameterChain(node, stack[Len(stack)].node)

\* getPathFromParent(node, "CallExpression"): path[0], the closest call at or
\* above the node (NullRef when there is none, and the path is null).
RECURSIVE ClosestCall(_)
ClosestCall(ref) ==
  IF ref = NullRef THEN NullRef
  ELSE IF TypeOf(ref) = "CallExpression" THEN ref
  ELSE ClosestCall(Parent(ref))

\* path[1]: the child of path[0] on the way to the node (undefined when the
\* node is the call itself).
CallImmediateChild(callExpr, node) ==
  IF node = callExpr THEN NullRef ELSE SubSeq(node, 1, Len(callExpr) + 1)

isCalleeOf(callExpr, node) ==
  CallImmediateChild(callExpr, node) = Child(callExpr, "callee")

Candidate(idx, c, f) == [idx |-> idx, cache |-> c, fault |-> f]

\* getXssCandidateParent: [idx, cache, fault]; idx = 0 for null.
\* CandidateBy is one round of its loop once the frame's rules are known.
RECURSIVE CandidateFrom(_, _, _, _), CandidateBy(_, _, _, _, _)
CandidateFrom(c, stack, ptr, node) ==
  IF ptr = 0 THEN Candidate(0, c, FALSE)
  ELSE IF TypeOf(stack[ptr].node) # "CallExpression" THEN Candidate(ptr, c, FALSE)
  ELSE CandidateBy(RulesGet(c, Node(stack[ptr].node)), stack, ptr, node,
                   ClosestCall(node))

CandidateBy(fr, stack, ptr, node, callExpr) ==
  IF ~fr.rules.passthrough THEN Candidate(ptr, fr.cache, FALSE)
  ELSE IF fr.rules.obj /\ fr.rules.args
  THEN CandidateFrom(fr.cache, stack, ptr - 1, node)
  ELSE IF callExpr = NullRef THEN Candidate(0, fr.cache, TRUE)
  ELSE IF isCalleeOf(callExpr, node) /\ fr.rules.obj
  THEN CandidateFrom(fr.cache, stack, ptr - 1, node)
  ELSE IF ~isCalleeOf(callExpr, node) /\ fr.rules.args
  THEN CandidateFrom(fr.cache, stack, ptr - 1, node)
  ELSE Candidate(ptr, fr.cache, FALSE)

getXssCandidateParent(c, stack, node) == CandidateFrom(c, stack, Len(stack), node)

\* The state a handler leaves: s = [stack, reports, cache, fault].
Machine(stack, r, c, f) == [stack |-> stack, reports |-> r, cache |-> c, fault |-> f]

\* Every frame of the stack tainted once a candidate is found.  C18 tells it
\* apart.
MarkXssEveryFrame(stack, reps, candidate) ==
  Machine(IF candidate.idx = 0 THEN stack
          ELSE [k \in 1..Len(stack) |-> [stack[k] EXCEPT !.xss = TRUE]],
          reps, candidate.cache, candidate.fault)

\* candidate.xss = true on the frame found (none for idx = 0).
MarkXss(stack, reps, candidate) ==
  Machine(IF candidate.idx = 0 THEN stack
          ELSE [stack EXCEPT ![candidate.idx].xss = TRUE],
          reps, candidate.cache, candidate.fault)

\* The `if` of infectParentConditional once isCommentedSafe (cs) and
\* canInfectXss (chain) are known; cond = [v, cache] is the handler's
\* condition, evaluated only when the earlier conjuncts hold.
InfectBy(s, cond, node, cs, chain) ==
  IF Len(s.stack) = 0 THEN s
  ELSE IF cs = "fault" THEN [s EXCEPT !.fault = TRUE]
  ELSE IF cs = "safe" THEN s
  ELSE IF chain = "fault" THEN [s EXCEPT !.fault = TRUE]
  ELSE IF chain = "false" THEN s
  ELSE IF ~cond.v THEN [s EXCEPT !.cache = cond.cache]
  ELSE MarkXss(s.stack, s.reports, getXssCandidateParent(cond.cache, s.stack, node))

infectParentConditional(s, cond, node) ==
  InfectBy(s, cond, node, CommentedSafe(node), canInfectXss(s.stack, node))

pushNode(s, node) ==
  [s EXCEPT !.stack = Append(@, [node |-> node, xss |-> FALSE])]

PushUnlessFault(s, node) == IF s.fault THEN s ELSE pushNode(s, node)

\* The first check of a validated frame, by the frame's kind.
FirstCheck(m, node, t, func) ==
  CASE t = "CallExpression" -> checkFunctionAcceptsHtml(m, Child(node, "callee"))
    [] t = "AssignmentExpression" -> checkHtmlVariable(m, Child(node, "left"))
    [] t = "VariableDeclarator" -> checkHtmlVariable(m, Child(node, "id"))
    [] t = "Property" -> checkHtmlVariable(m, Child(node, "key"))
    [] t = "ReturnStatement" -> checkHtmlFunction(m, func, node)
    [] t = "ArrowFunctionExpression" -> checkHtmlFunction(m, func, func)
    [] OTHER -> m

\* The expressions a validated frame passes to checkForXss, by its kind.
CheckedInputs(node, t) ==
  CASE t = "CallExpression" -> ChildList(node, "arguments")
    [] t = "AssignmentExpression" -> << Child(node, "right") >>
    [] t = "VariableDeclarator" ->
         IF Child(node, "init") # NullRef THEN << Child(node, "init") >> ELSE << >>
    [] t = "Property" -> << Child(node, "value") >>
    [] t = "ReturnStatement" -> << Child(node, "argument") >>
    [] t = "ArrowFunctionExpression" -> << Child(node, "body") >>
    [] OTHER -> << >>

\* The type-specific checks of exitNode for the popped frame's node.
ValidateFrame(m, node, t, func) ==
  IF t \in {"ReturnStatement", "ArrowFunctionExpression"} /\ func = NullRef THEN m
  ELSE CheckEachArgument(FirstCheck(m, node, t, func), CheckedInputs(node, t), node)

\* A pop that leaves the stack as it is.  C7 tells it apart.
PoppedNothing(stack) == stack

Popped(stack) == SubSeq(stack, 1, Len(stack) - 1)

Validated(stack, m) == Machine(stack, m.reports, m.cache, m.fault)

\* exitNode after `!expr.xss && !usesHtml(expr.node)` (uses) is known.
ExitBy(s, expr, uses, cs) ==
  IF ~expr.xss /\ ~uses.v THEN Machine(Popped(s.stack), s.reports, uses.cache, FALSE)
  ELSE IF cs = "fault"
  THEN Machine(Popped(s.stack), s.reports,
               IF expr.xss THEN s.cache ELSE uses.cache, TRUE)
  ELSE IF cs = "safe"
  THEN Machine(Popped(s.stack), s.reports,
               IF expr.xss THEN s.cache ELSE uses.cache, FALSE)
  ELSE Validated(Popped(s.stack),
                 ValidateFrame([reports |-> s.reports,
                                cache |-> IF expr.xss THEN s.cache ELSE uses.cache,
                                fault |-> FALSE],
                               expr.node, TypeOf(expr.node),
                               getParentFunctionIdentifier(expr.node)))

exitNode(s) ==
  IF Len(s.stack) = 0 THEN [s EXCEPT !.fault = TRUE]
  ELSE ExitBy(s, s.stack[Len(s.stack)],
              usesHtml(s.cache, s.stack[Len(s.stack)].node),
              CommentedSafe(s.stack[Len(s.stack)].node))

\* markParentXSS that leaves the array's frame on the stack.  C19 tells it
\* apart.
MarkByKeepingFrame(s, expr, uses) ==
  IF ~expr.xss /\ ~uses.v THEN Machine(s.stack, s.reports, uses.cache, FALSE)
  ELSE MarkXss(s.stack, s.reports,
               getXssCandidateParent(IF expr.xss THEN s.cache ELSE uses.cache,
                                     Popped(s.stack), expr.node))

MarkBy(s, expr, uses) ==
  IF ~expr.xss /\ ~uses.v THEN Machine(Popped(s.stack), s.reports, uses.cache, FALSE)
  ELSE MarkXss(Popped(s.stack), s.reports,
               getXssCandidateParent(IF expr.xss THEN s.cache ELSE uses.cache,
                                     Popped(s.stack), expr.node))

markParentXSS(s) ==
  IF Len(s.stack) = 0 THEN [s EXCEPT !.fault = TRUE]
  ELSE MarkBy(s, s.stack[Len(s.stack)], usesHtml(s.cache, s.stack[Len(s.stack)].node))

\* The visitor table's handlers.
\* The call's frame pushed before the resolution runs.  C17 tells it apart.
OnCallExpressionPushFirst(s, node) ==
  infectParentConditional(pushNode(s, node),
                          isHtmlOutputFunction(s.cache, Node(node).callee), node)

OnCallExpression(s, node) ==
  PushUnlessFault(
    infectParentConditional(s, isHtmlOutputFunction(s.cache, Node(node).callee), node),
    node)

OnLiteral(s, node) ==
  infectParentConditional(
    s,
    Plain(~Node(node).regex /\ ~isCommentedSafe(node) /\ HtmlTagExec(Node(node).value),
          s.cache),
    node)

OnIdentifier(s, node) ==
  infectParentConditional(s, Plain(isHtmlVariable(Node(node)), s.cache), node)

(***************************************************************************)
(* The programs and options analysed.                                      *)
(***************************************************************************)
MaxLitLen == 3
MaxOperands == 3

LitAlphabet == {"<", "/", "b", "B"}

\* Every string over LitAlphabet of length at most n.
RECURSIVE StringsUpTo(_)
StringsUpTo(n) ==
  IF n = 0 THEN { <<>> }
  ELSE LET shorter == StringsUpTo(n - 1)
       IN  shorter \cup { Append(w, ch) : w \in shorter, ch \in LitAlphabet }

LitHtml == Literal(<<"<", "b">>)
LitPlain == Literal(<<"b">>)
IdHtml == Identifier(Str_html)
IdX == Identifier(Str_x)
IdY == Identifier(Str_y)
IdF == Identifier(Str_f)
IdFAsHtml == Identifier(Str_fAsHtml)
IdJoin == Identifier(Str_join)
IdToString == Identifier(Str_toString)

Atoms == {LitHtml, LitPlain, IdHtml, IdX}
OperandAtoms == {LitHtml, IdHtml, IdX}

\* Concatenations of n operands, nested to the left and (parenthesized) to
\* the right.
RECURSIVE LeftChains(_), RightChains(_)
LeftChains(n) ==
  IF n = 1 THEN OperandAtoms
  ELSE { BinaryExpression(l, r) : l \in LeftChains(n - 1), r \in OperandAtoms }
RightChains(n) ==
  IF n = 1 THEN OperandAtoms
  ELSE { BinaryExpression(l, IF n = 2 THEN r ELSE Paren(r)) :
           l \in OperandAtoms, r \in RightChains(n - 1) }

Chains == UNION { LeftChains(n) \cup RightChains(n) : n \in 2..MaxOperands }

\* Expression shapes used as right-hand sides, arguments and return values.
Shapes ==
  Atoms \cup
  { ThisExpression,
    BinaryExpression(LitHtml, IdX),
    BinaryExpression(IdX, IdY),
    ArrayExpression(<<LitHtml>>),
    ArrayExpression(<<IdX>>),
    ArrayExpression(<<NullNode, LitHtml>>),
    ArrayExpression(<<ArrayExpression(<<LitHtml>>), IdX>>),
    ConditionalExpression(IdY, LitHtml, IdX),
    CallExpression(IdF, <<LitHtml>>),
    CallExpression(IdF, <<IdX>>),
    CallExpression(IdFAsHtml, <<IdX>>),
    CallExpression(IdJoin, <<IdX>>),
    CallExpression(MemberExpression(ArrayExpression(<<LitHtml, IdX>>), IdJoin),
                   <<LitPlain>>),
    CallExpression(MemberExpression(IdX, IdJoin), <<IdY>>),
    CallExpression(MemberExpression(IdX, IdToString), <<LitHtml>>),
    CallExpression(MemberExpression(IdHtml, IdToString), <<>>),
    CallExpression(MemberExpression(CallExpression(IdF, <<IdX>>), IdToString), <<>>),
    ObjectExpression(<<Property(IdHtml, IdX)>>),
    FunctionExpression(NullNode, <<ReturnStatement(LitHtml)>>),
    ArrowFunctionExpression(LitHtml),
    AssignmentExpression(IdX, LitHtml),
    MemberExpression(IdX, IdHtml),
    ComputedMember(IdHtml, IdX) }

SinkNames == {Str_html, Str_x}
FunctionNames == {Str_fAsHtml, Str_makeHtml, Str_make}

Stmt(e) == Program(<<ExpressionStatement(e)>>)
Var(ds) == Program(<<VariableDeclaration(ds)>>)

\* var NAME = "LITERAL";  with and without a safe comment on the literal,
\* and as a regular expression literal.
LiteralPrograms ==
  { Var(<<VariableDeclarator(Identifier(n), Literal(v))>>) :
      n \in {Str_msg, Str_htmlMsg}, v \in StringsUpTo(MaxLitLen) }
  \cup { Var(<<VariableDeclarator(Identifier(Str_msg), l)>>) :
           l \in {Safe(LitHtml), RegexLiteral(<<"<", "b">>)} }

\* var NAME = a + b + ...;
ChainPrograms ==
  { Var(<<VariableDeclarator(Identifier(n), e)>>) : n \in SinkNames, e \in Chains }

AssignPrograms ==
  { Stmt(AssignmentExpression(Identifier(n), e)) : n \in SinkNames, e \in Shapes }
  \cup { Var(<<VariableDeclarator(Identifier(n), e)>>) : n \in SinkNames, e \in Shapes }
  \cup { Var(<<VariableDeclarator(Identifier(Str_x), NullNode)>>),
         Var(<<VariableDeclarator(Identifier(Str_html), NullNode)>>) }

\* NAME = callee(E);  and  callee(E);
CallPrograms ==
  { Stmt(AssignmentExpression(Identifier(n), CallExpression(f, <<e>>))) :
      n \in SinkNames, f \in {IdF, IdFAsHtml}, e \in Shapes }
  \cup { Stmt(CallExpression(f, <<e>>)) : f \in {IdF, IdFAsHtml}, e \in Shapes }

\* html = RECEIVER.method(ARG);
PassthroughPrograms ==
  { Stmt(AssignmentExpression(IdHtml,
           CallExpression(MemberExpression(r, m), <<a>>))) :
      r \in Shapes, m \in {IdJoin, IdToString}, a \in {LitPlain, IdY, LitHtml} }

\* function NAME() { return E; }   var NAME = function () { return E; };
\* var NAME = () => E;   and  return;
ReturnPrograms ==
  { Program(<<FunctionDeclaration(Identifier(n), <<ReturnStatement(e)>>)>>) :
      n \in FunctionNames, e \in Shapes \cup {NullNode} }
  \cup { Var(<<VariableDeclarator(Identifier(n),
                 FunctionExpression(NullNode, <<ReturnStatement(e)>>))>>) :
           n \in FunctionNames, e \in Atoms \cup {BinaryExpression(LitHtml, IdX)} }
  \cup { Var(<<VariableDeclarator(Identifier(n), ArrowFunctionExpression(e))>>) :
           n \in FunctionNames, e \in Atoms \cup {BinaryExpression(LitHtml, IdX)} }
  \cup { Stmt(CallExpression(IdF, <<FunctionExpression(NullNode, <<ReturnStatement(e)>>)>>)) :
           e \in {LitHtml, IdX} }

\* x = { KEY: E };
PropertyPrograms ==
  { Stmt(AssignmentExpression(IdX, ObjectExpression(<<Property(k, e)>>))) :
      k \in {IdHtml, IdY, LitPlain}, e \in Shapes }

\* Declarations carrying safe comments.
CommentPrograms ==
  LET plainX == VariableDeclarator(IdX, BinaryExpression(LitHtml, IdY))
      safeInit == VariableDeclarator(IdX, Safe(BinaryExpression(LitHtml, IdY)))
      safeInitH == VariableDeclarator(IdHtml, Safe(BinaryExpression(LitHtml, IdY)))
      safeRight == VariableDeclarator(IdHtml, BinaryExpression(LitHtml, Safe(IdY)))
      safeParen == VariableDeclarator(IdHtml,
                     Safe(Paren(BinaryExpression(LitHtml, IdY))))
      safeId == VariableDeclarator(Safe(IdX), BinaryExpression(LitHtml, IdY))
      sibling == VariableDeclarator(Identifier(Str_msg), LitHtml)
      first == {plainX, safeInit, safeInitH, safeRight, safeParen, safeId}
  IN  { Program(<<VariableDeclaration(<<d, sibling>>)>>) : d \in first }
      \cup { Program(<<Safe(VariableDeclaration(<<d, sibling>>))>>) : d \in first }
      \cup { Program(<<VariableDeclaration(<<d>>)>>) : d \in first }
      \cup { Stmt(CallExpression(IdF, <<Safe(LitHtml)>>)),
             Stmt(Safe(CallExpression(IdF, <<LitHtml>>))),
             Stmt(BinaryExpression(IdX, CallExpression(IdF, <<LitHtml>>))),
             Stmt(Paren(BinaryExpression(IdX, CallExpression(IdF, <<LitHtml>>)))),
             Stmt(AssignmentExpression(IdHtml,
                    BinaryExpression(Safe(Paren(BinaryExpression(IdX, IdY))), IdY))) }

\* Several top-level statements.
SequencePrograms ==
  { Program(<<ExpressionStatement(AssignmentExpression(IdHtml, e)),
              ExpressionStatement(BinaryExpression(IdX, IdY)),
              VariableDeclaration(<<VariableDeclarator(IdX, e)>>)>>) :
      e \in {LitHtml, IdX, ArrayExpression(<<LitHtml>>),
             CallExpression(IdF, <<LitHtml>>)} }
  \cup { Program(<<>>) }

\* Calls nested in the receiver or the argument of a call that passes only
\* its object (.toString) or only its arguments (f, by option) through, and
\* HTML sources inside the body of a function expression.
InnerCalls ==
  { CallExpression(MemberExpression(ArrayExpression(<<LitHtml>>), IdJoin), <<IdX>>),
    CallExpression(MemberExpression(ArrayExpression(<<IdX>>), IdJoin), <<LitHtml>>),
    CallExpression(MemberExpression(IdX, IdJoin), <<LitHtml>>),
    CallExpression(MemberExpression(IdX, IdJoin), <<ArrayExpression(<<LitHtml>>)>>) }

NestedPrograms ==
  { Stmt(AssignmentExpression(IdHtml,
           CallExpression(MemberExpression(IdY, IdToString), <<c>>))) : c \in InnerCalls }
  \cup { Stmt(AssignmentExpression(IdHtml,
             CallExpression(MemberExpression(c, IdToString), <<>>))) : c \in InnerCalls }
  \cup { Stmt(AssignmentExpression(n, CallExpression(IdF, <<c>>))) :
           n \in {IdHtml, IdX}, c \in InnerCalls }
  \cup { Var(<<VariableDeclarator(IdX,
                 FunctionExpression(NullNode, <<ExpressionStatement(e)>>))>>) :
           e \in {LitHtml, IdHtml} }

Programs ==
  LiteralPrograms \cup ChainPrograms \cup AssignPrograms \cup CallPrograms
    \cup PassthroughPrograms \cup ReturnPrograms \cup PropertyPrograms
    \cup CommentPrograms \cup SequencePrograms \cup NestedPrograms

\* Options: the default function rules, and tables that add policies.
RulesFInput == (Str_f :> HtmlInput) @@ defaultFunctionRules
RulesFOutput == (Str_f :> HtmlOutput) @@ defaultFunctionRules
RulesFSafe ==
  (Str_f :> [HtmlInput EXCEPT !.safe = {Str_x}])
    @@ (Str_fAsHtml :> [HtmlInput EXCEPT !.safeAll = TRUE]) @@ defaultFunctionRules
RulesBareJoin ==
  (Str_join :> PassBoth) @@ (Str_f :> PassArgs) @@ defaultFunctionRules

Options == {defaultFunctionRules, RulesFInput, RulesFOutput, RulesFSafe, RulesBareJoin}

(***************************************************************************)
(* The traversal: one action per handler of the visitor table.             *)
(***************************************************************************)
Running == ~fault /\ pc <= Len(events)
Event == events[pc]
Current == Machine(exprStack, reports, cache, fault)

PushTypes ==
  {"AssignmentExpression", "VariableDeclarator", "Property", "ReturnStatement",
   "ArrowFunctionExpression", "ArrayExpression"}
ExitTypes ==
  {"AssignmentExpression", "VariableDeclarator", "Property", "ReturnStatement",
   "ArrowFunctionExpression", "CallExpression"}

Handled(ev) ==
  LET t == TypeOf(ev.node)
  IN  \/ ev.kind = "enter"
         /\ t \in PushTypes \cup {"CallExpression", "Literal", "Identifier"}
      \/ ev.kind = "exit" /\ t \in ExitTypes \cup {"ArrayExpression"}

Becomes(s) ==
  /\ exprStack' = s.stack
  /\ reports' = s.reports
  /\ cache' = s.cache
  /\ fault' = s.fault
  /\ pc' = pc + 1
  /\ UNCHANGED <<prog, events, functionRules, lastNode, lastRules, lastHit,
                 subject, answer>>

EnterPush ==
  /\ Running
  /\ Event.kind = "enter" /\ TypeOf(Event.node) \in PushTypes
  /\ Becomes(pushNode(Current, Event.node))

EnterCallExpression ==
  /\ Running
  /\ Event.kind = "enter" /\ TypeOf(Event.node) = "CallExpression"
  /\ Becomes(OnCallExpression(Current, Event.node))

EnterLiteral ==
  /\ Running
  /\ Event.kind = "enter" /\ TypeOf(Event.node) = "Literal"
  /\ Becomes(OnLiteral(Current, Event.node))

EnterIdentifier ==
  /\ Running
  /\ Event.kind = "enter" /\ TypeOf(Event.node) = "Identifier"
  /\ Becomes(OnIdentifier(Current, Event.node))

ExitNode ==
  /\ Running
  /\ Event.kind = "exit" /\ TypeOf(Event.node) \in ExitTypes
  /\ Becomes(exitNode(Current))

ExitArrayExpression ==
  /\ Running
  /\ Event.kind = "exit" /\ TypeOf(Event.node) = "ArrayExpression"
  /\ Becomes(markParentXSS(Current))

\* A node kind without a handler: the traversal moves on.
Unhandled ==
  /\ Running
  /\ ~Handled(Event)
  /\ Becomes(Current)

NoLookup == [type |-> "Null"]

\* No helper has been applied on its own yet.
NoAnswer == [op |-> "none"]

Init ==
  /\ prog \in Programs
  /\ events = Events(prog, <<>>)
  /\ functionRules \in Options
  /\ pc = 1
  /\ exprStack = <<>>
  /\ reports = <<>>
  /\ cache = <<>>
  /\ fault = FALSE
  /\ lastNode = NoLookup
  /\ lastRules = EmptyRules
  /\ lastHit = FALSE
  /\ subject = NullRef
  /\ answer = NoAnswer

Next ==
  \/ EnterPush
  \/ EnterCallExpression
  \/ EnterLiteral
  \/ EnterIdentifier
  \/ ExitNode
  \/ ExitArrayExpression
  \/ Unhandled

Spec == Init /\ [][Next]_vars

Done == pc > Len(events)

(***************************************************************************)
(* The rule table on its own: lookups of function policies in any order.   *)
(***************************************************************************)
Str_abc == <<"a", ".", "b", ".", "c">>
Str_dotbc == <<".", "b", ".", "c">>
Str_dotc == <<".", "c">>
Str_ac == <<"a", ".", "c">>
Str_fc == <<"f", ".", "c">>

RuleKeys == {Str_abc, Str_dotbc, Str_dotc, Str_ac, Str_fc, Str_c}

\* A policy that names the key it is configured under.
PolicyOf(k) == [EmptyRules EXCEPT !.safe = {k}]

RuleTables == { [k \in keys |-> PolicyOf(k)] : keys \in SUBSET RuleKeys }

IdA == Identifier(Str_a)
IdB == Identifier(Str_b)
IdC == Identifier(Str_c)

\* c, this.c, a.b.c, a[b].c, f().c, a["b"].c, this, and calls of some.
LookupNodes ==
  { IdC,
    MemberExpression(ThisExpression, IdC),
    MemberExpression(MemberExpression(IdA, IdB), IdC),
    MemberExpression(ComputedMember(IdA, IdB), IdC),
    MemberExpression(CallExpression(IdF, <<>>), IdC),
    MemberExpression(ComputedMember(IdA, Literal(Str_b)), IdC),
    ThisExpression,
    CallExpression(IdC, <<>>),
    CallExpression(MemberExpression(MemberExpression(IdA, IdB), IdC), <<IdX>>) }

Looked(n, r) ==
  /\ cache' = r.cache
  /\ lastNode' = n
  /\ lastRules' = r.rules
  /\ lastHit' = r.hit
  /\ UNCHANGED <<prog, events, functionRules, pc, exprStack, reports, fault,
                 subject, answer>>

\* allRules.getFunctionRules(node)
GetFunctionRules ==
  \E n \in LookupNodes : Looked(n, getFunctionRules(cache, n))

\* allRules.get(node): only a call is looked up.
GetRules ==
  \E n \in LookupNodes :
    Looked(IF n.type = "CallExpression" THEN n ELSE NoLookup, RulesGet(cache, n))

InitRules ==
  /\ prog = Program(<<>>)
  /\ events = <<>>
  /\ functionRules \in RuleTables
  /\ pc = 1
  /\ exprStack = <<>>
  /\ reports = <<>>
  /\ cache = <<>>
  /\ fault = FALSE
  /\ lastNode = NoLookup
  /\ lastRules = EmptyRules
  /\ lastHit = FALSE
  /\ subject = NullRef
  /\ answer = NoAnswer

NextRules ==
  \/ GetFunctionRules
  \/ GetRules

SpecRules == InitRules /\ [][NextRules]_vars

(***************************************************************************)
(* The helpers on their own: the naming test and the terminal extraction   *)
(* applied to any expression of a program.                                 *)
(***************************************************************************)
HelperNames == {Str_html, Str_x, Str_myHTML}

\* Identifiers, member accesses of either kind over identifiers, `this`,
\* literals and calls, and calls of those.
HelperBases ==
  { Identifier(n) : n \in HelperNames \cup {Str_htmlMsg, Str_msg} }
    \cup { ThisExpression, LitPlain, CallExpression(IdF, <<>>),
           CallExpression(Identifier(Str_html), <<>>),
           MemberExpression(Identifier(Str_x), Identifier(Str_html)),
           ComputedMember(Identifier(Str_html), Identifier(Str_x)) }

NameExpressions ==
  HelperBases
    \cup { MemberExpression(o, Identifier(p)) : o \in HelperBases, p \in HelperNames }
    \cup { ComputedMember(o, q) :
             o \in HelperBases, q \in {Identifier(Str_html), Identifier(Str_x), LitPlain} }
    \cup { CallExpression(MemberExpression(o, Identifier(p)), <<>>) :
             o \in HelperBases, p \in HelperNames }
    \cup { CallExpression(ComputedMember(o, Identifier(p)), <<>>) :
             o \in HelperBases, p \in HelperNames }

\* Inputs of the terminal extraction: array literals at the top level, under
\* concatenations, conditionals, other arrays, assignments and passthrough
\* calls.
ArrayInputs ==
  { ArrayExpression(<<IdX>>), ArrayExpression(<<LitHtml, IdX>>),
    ArrayExpression(<<ArrayExpression(<<IdX>>), IdY>>),
    ArrayExpression(<<BinaryExpression(IdX, IdY)>>),
    ArrayExpression(<<NullNode, IdX>>),
    ArrayExpression(<<>>) }

TerminalInputs ==
  ArrayInputs
    \cup { BinaryExpression(LitHtml, a) : a \in ArrayInputs }
    \cup { BinaryExpression(a, IdY) : a \in ArrayInputs }
    \cup { ConditionalExpression(IdY, a, IdX) : a \in ArrayInputs }
    \cup { ConditionalExpression(IdY, IdX, BinaryExpression(a, IdY)) : a \in ArrayInputs }
    \cup { AssignmentExpression(IdX, a) : a \in ArrayInputs }
    \cup { CallExpression(MemberExpression(a, m), <<b>>) :
             a \in ArrayInputs, m \in {IdJoin, IdToString},
             b \in {IdY, ArrayExpression(<<IdX>>)} }
    \cup { CallExpression(IdF, <<a>>) : a \in ArrayInputs }
    \cup { BinaryExpression(IdY, CallExpression(MemberExpression(a, IdJoin), <<IdY>>)) :
             a \in ArrayInputs }

HelperPrograms == { Stmt(e) : e \in NameExpressions \cup TerminalInputs }

\* The nodes of the program.
NodeRefs == { events[i].node : i \in 1..Len(events) }

Applied(ref, a) ==
  /\ subject' = ref
  /\ answer' = a
  /\ UNCHANGED <<prog, events, functionRules, pc, exprStack, reports, cache,
                 fault, lastNode, lastRules, lastHit>>

\* isHtmlVariable(node) for a node of the program.
IsHtmlVariable ==
  \E ref \in NodeRefs :
    Applied(ref, [op |-> "isHtmlVariable", v |-> isHtmlVariable(Node(ref))])

Extracted(ref, nodes) ==
  Applied(ref, [op |-> "getDescendants", children |-> nodes.children,
                fault |-> nodes.fault])

\* getDescendants(node) as checkForXss calls it, with a fresh lookup cache.
GetDescendants ==
  \E ref \in NodeRefs :
    Extracted(ref, getDescendants([children |-> <<>>, cache |-> <<>>,
                                   fault |-> FALSE], ref, FALSE))

InitHelpers ==
  /\ prog \in HelperPrograms
  /\ events = Events(prog, <<>>)
  /\ functionRules \in {defaultFunctionRules, RulesBareJoin}
  /\ pc = 1
  /\ exprStack = <<>>
  /\ reports = <<>>
  /\ cache = <<>>
  /\ fault = FALSE
  /\ lastNode = NoLookup
  /\ lastRules = EmptyRules
  /\ lastHit = FALSE
  /\ subject = NullRef
  /\ answer = NoAnswer

NextHelpers ==
  \/ IsHtmlVariable
  \/ GetDescendants

SpecHelpers == InitHelpers /\ [][NextHelpers]_vars

(***************************************************************************)
(* Properties                                                              *)
(***************************************************************************)
\* References into a program whose first statement is a declaration or an
\* expression statement.
FirstStatement == << <<"body", 1>> >>
FirstDeclarator == Append(FirstStatement, <<"declarations", 1>>)
FirstExpression == Append(FirstStatement, <<"expression", 0>>)

IsWithin(ref, top) == Len(ref) >= Len(top) /\ SubSeq(ref, 1, Len(top)) = top

Letters == LowerLetters \cup { "A", "B", "H", "M", "L", "S", "T" }

\* The program is  var NAME = LITERAL;  with one declarator, a name that
\* matches no HTML-variable pattern and a string literal without a comment.
IsPlainLiteralDeclaration ==
  /\ Len(prog.body) = 1
  /\ prog.body[1].type = "VariableDeclaration"
  /\ Len(prog.body[1].declarations) = 1
  /\ prog.body[1].declarations[1].init.type = "Literal"
  /\ ~prog.body[1].declarations[1].init.regex
  /\ ~prog.body[1].declarations[1].init.safe
  /\ ~any(prog.body[1].declarations[1].id.name, htmlVariableRulesRegex)

DeclaredLiteral == prog.body[1].declarations[1].init.value

\* `<` directly followed by a letter of either case.
HasTagLetter(v) ==
  \E i \in 1..(Len(v) - 1) : v[i] = "<" /\ v[i + 1] \in Letters

\* `<`, optionally `/`, then a lower-case letter.
HasLowerCaseTag(v) ==
  \E i \in 1..(Len(v) - 1) :
    /\ v[i] = "<"
    /\ \/ v[i + 1] \in LowerLetters
       \/ v[i + 1] = "/" /\ i + 2 <= Len(v) /\ v[i + 2] \in LowerLetters

NonHtmlVariableAtName ==
  << Report(Append(FirstDeclarator, <<"id", 0>>), "NonHtmlVariable") >>

\* C1 (as stated): a literal with `<` followed by a letter, initialising a
\* variable without an HTML name, yields exactly one finding, 'Non-HTML
\* variable', at the declarator (the declarator or its name, which start at
\* the same position).
C1_AnyLetterOneFinding ==
  (Done /\ IsPlainLiteralDeclaration /\ HasTagLetter(DeclaredLiteral))
    => /\ Len(reports) = 1
       /\ reports[1].message = "NonHtmlVariable"
       /\ reports[1].node \in {FirstDeclarator, Append(FirstDeclarator, <<"id", 0>>)}

\* C1 (amended): for  var NAME = LITERAL;  with a name that matches no
\* HTML-variable pattern and an uncommented string literal, the traversal
\* ends with exactly one finding, 'Non-HTML variable' at the declarator's
\* name, when the literal contains `<`, optionally `/`, and then a
\* lower-case letter, and with no finding otherwise.
C1_LowerCaseTagOneFinding ==
  (Done /\ IsPlainLiteralDeclaration)
    => reports = IF HasLowerCaseTag(DeclaredLiteral)
                 THEN NonHtmlVariableAtName ELSE << >>

C1_Witness ==
  /\ Done /\ IsPlainLiteralDeclaration
  /\ HasLowerCaseTag(DeclaredLiteral)
  /\ reports = NonHtmlVariableAtName

\* The program is  NAME = callee(ARG);  with an HTML-named variable and a
\* callee that matches an HTML-function naming pattern.
IsEncodeAssignment ==
  /\ Len(prog.body) = 1
  /\ prog.body[1].type = "ExpressionStatement"
  /\ prog.body[1].expression.type = "AssignmentExpression"
  /\ ~prog.body[1].expression.safe
  /\ prog.body[1].expression.left.type = "Identifier"
  /\ any(prog.body[1].expression.left.name, htmlVariableRulesRegex)
  /\ prog.body[1].expression.right.type = "CallExpression"
  /\ prog.body[1].expression.right.callee.type = "Identifier"
  /\ any(prog.body[1].expression.right.callee.name, htmlFunctionRules)
  /\ Len(prog.body[1].expression.right.arguments) = 1

EncodeArgument == prog.body[1].expression.right.arguments[1]
EncodeCallee == FirstExpression \o << <<"right", 0>>, <<"callee", 0>> >>

\* An expression built from identifiers without an HTML name, literals
\* without a tag, concatenations, conditionals and arrays of such.
RECURSIVE HtmlFree(_)
HtmlFree(e) ==
  CASE e.type = "Identifier" -> ~any(e.name, htmlVariableRulesRegex)
    [] e.type = "Literal" -> ~HasLowerCaseTag(e.value)
    [] e.type = "BinaryExpression" -> HtmlFree(e.left) /\ HtmlFree(e.right)
    [] e.type = "ConditionalExpression" ->
         HtmlFree(e.test) /\ HtmlFree(e.consequent) /\ HtmlFree(e.alternate)
    [] e.type = "ArrayExpression" ->
         \A i \in 1..Len(e.elements) : HtmlFree(e.elements[i])
    [] OTHER -> FALSE

\* An HTML-like string literal or an HTML-named identifier.
IsHtmlSource(e) ==
  \/ e.type = "Literal" /\ ~e.regex /\ ~e.safe /\ HasLowerCaseTag(e.value)
  \/ e.type = "Identifier" /\ ~e.safe /\ any(e.name, htmlVariableRulesRegex)

IsTaintedReturn ==
  /\ Len(prog.body) = 1
  /\ prog.body[1].type = "FunctionDeclaration"
  /\ Len(prog.body[1].body.body) = 1
  /\ prog.body[1].body.body[1].type = "ReturnStatement"
  /\ prog.body[1].body.body[1].argument.type = "BinaryExpression"
  /\ IsHtmlSource(prog.body[1].body.body[1].argument.left)
  /\ prog.body[1].body.body[1].argument.right.type = "Identifier"
  /\ HtmlFree(prog.body[1].body.body[1].argument.right)

FirstReturn == FirstStatement \o << <<"body", 0>>, <<"body", 1>> >>
ReturnedRight == FirstReturn \o << <<"argument", 0>>, <<"right", 0>> >>

\* C3: when a tainted return statement's frame is popped inside a function
\* whose name matches no HTML-function pattern, 'Non-HTML function returns
\* HTML content' is reported at the return statement, followed by
\* 'Unencoded input' for the returned identifier without an HTML name.
C3_NonHtmlFunctionReported ==
  (Done /\ IsTaintedReturn /\ ~any(prog.body[1].id.name, htmlFunctionRules))
    => reports = << Report(FirstReturn, "NonHtmlFunction"),
                    Report(ReturnedRight, "UnencodedInput") >>

\* The program is  var X = "<LITERAL>" + Y, SIBLING = "<LITERAL>";  where
\* no name is an HTML name; safe comments may lead the declaration or the
\* first initialiser.
IsCommentedPair ==
  /\ Len(prog.body) = 1
  /\ prog.body[1].type = "VariableDeclaration"
  /\ Len(prog.body[1].declarations) = 2
  /\ \A i \in 1..2 :
       /\ prog.body[1].declarations[i].id.type = "Identifier"
       /\ ~prog.body[1].declarations[i].id.safe
       /\ HtmlFree(prog.body[1].declarations[i].id)
  /\ prog.body[1].declarations[1].init.type = "BinaryExpression"
  /\ ~prog.body[1].declarations[1].init.paren
  /\ prog.body[1].declarations[1].init.left.type = "Literal"
  /\ IsHtmlSource(prog.body[1].declarations[1].init.left)
  /\ prog.body[1].declarations[1].init.right.type = "Identifier"
  /\ ~prog.body[1].declarations[1].init.right.safe
  /\ HtmlFree(prog.body[1].declarations[1].init.right)
  /\ IsHtmlSource(prog.body[1].declarations[2].init)

SecondDeclarator == Append(FirstStatement, <<"declarations", 2>>)

FirstDeclaratorFindings ==
  << Report(Append(FirstDeclarator, <<"id", 0>>), "NonHtmlVariable"),
     Report(FirstDeclarator \o << <<"init", 0>>, <<"right", 0>> >>, "UnencodedInput") >>

SiblingFindings ==
  << Report(Append(SecondDeclarator, <<"id", 0>>), "NonHtmlVariable") >>

\* C4 (as stated): with a safe comment leading the declaration, nothing is
\* reported for the first declarator, and the sibling's finding is reported.
C4_DeclarationCommentSuppresses ==
  (Done /\ IsCommentedPair /\ prog.body[1].safe)
    => /\ \A i \in 1..Len(reports) : ~IsWithin(reports[i].node, FirstDeclarator)
       /\ \E i \in 1..Len(reports) : IsWithin(reports[i].node, SecondDeclarator)

\* C4 (amended): a safe comment leading the declaration is not consulted;
\* a safe comment leading the initialiser (var x = /*safe*/ "<div>" + y)
\* keeps the literal from tainting the declarator, so nothing is reported
\* for x; without it x gets 'Non-HTML variable' and y 'Unencoded input'.
\* The sibling declarator's finding is reported in every case.
C4_InitialiserCommentSuppresses ==
  (Done /\ IsCommentedPair)
    => reports =
         (IF prog.body[1].declarations[1].init.safe
          THEN << >> ELSE FirstDeclaratorFindings) \o SiblingFindings

C4_Witness ==
  /\ Done /\ IsCommentedPair
  /\ prog.body[1].safe
  /\ ~prog.body[1].declarations[1].init.safe
  /\ reports = FirstDeclaratorFindings \o SiblingFindings

C4_WitnessInitialiser ==
  /\ Done /\ IsCommentedPair
  /\ prog.body[1].declarations[1].init.safe
  /\ reports = SiblingFindings

\* The program is  NAME = RECEIVER.method(ARGS);  with an HTML-named
\* variable and a method configured to pass its object and its arguments
\* through.
IsPassthroughAssignment ==
  /\ Len(prog.body) = 1
  /\ prog.body[1].type = "ExpressionStatement"
  /\ prog.body[1].expression.type = "AssignmentExpression"
  /\ prog.body[1].expression.left.type = "Identifier"
  /\ any(prog.body[1].expression.left.name, htmlVariableRulesRegex)
  /\ prog.body[1].expression.right.type = "CallExpression"
  /\ prog.body[1].expression.right.callee.type = "MemberExpression"
  /\ ~prog.body[1].expression.right.callee.computed
  /\ LET policy == FirstRules(functionRules,
                              getRuleNames(prog.body[1].expression.right))
     IN  policy.passthrough /\ policy.obj /\ policy.args

PassthroughCall == Append(FirstExpression, <<"right", 0>>)
PassthroughCallee == Append(PassthroughCall, <<"callee", 0>>)
PassthroughReceiver == Append(PassthroughCallee, <<"object", 0>>)

IsPassthroughInput(ref) ==
  \/ IsWithin(ref, PassthroughReceiver)
  \/ \E i \in 1..Len(prog.body[1].expression.right.arguments) :
       IsWithin(ref, Append(PassthroughCall, <<"arguments", i>>))

\* C5: for an HTML-named sink whose value is an object-and-argument
\* passthrough call, every finding is located at a terminal of the receiver
\* object or of an argument, and none at the call, its callee or the
\* method name; the call's own frame is never marked as an XSS candidate.
C5_PassthroughFindingsAtInputs ==
  IsPassthroughAssignment
    => /\ \A i \in 1..Len(reports) :
            /\ IsPassthroughInput(reports[i].node)
            /\ reports[i].node \notin
                 { PassthroughCall, PassthroughCallee,
                   Append(PassthroughCallee, <<"property", 0>>) }
       /\ \A k \in 1..Len(exprStack) :
            exprStack[k].node = PassthroughCall => ~exprStack[k].xss

\* html = ["<b", x].join(...) ends with the finding at the array element x.
C5_Witness ==
  /\ Done /\ IsPassthroughAssignment
  /\ prog.body[1].expression.right.callee.object.type = "ArrayExpression"
  /\ \E i \in 1..Len(reports) :
       /\ reports[i].message = "UnencodedInput"
       /\ Parent(reports[i].node) = PassthroughReceiver

\* The program is  var NAME = a + b + ...;  a concatenation of literals and
\* identifiers without comments.
RECURSIVE IsConcatenation(_)
IsConcatenation(e) ==
  IF e.type = "BinaryExpression"
  THEN ~e.safe /\ IsConcatenation(e.left) /\ IsConcatenation(e.right)
  ELSE e.type \in {"Literal", "Identifier"} /\ ~e.safe

IsChainDeclaration ==
  /\ Len(prog.body) = 1
  /\ prog.body[1].type = "VariableDeclaration"
  /\ ~prog.body[1].safe
  /\ Len(prog.body[1].declarations) = 1
  /\ prog.body[1].declarations[1].id.type = "Identifier"
  /\ ~prog.body[1].declarations[1].id.safe
  /\ prog.body[1].declarations[1].init.type = "BinaryExpression"
  /\ IsConcatenation(prog.body[1].declarations[1].init)

ChainName == prog.body[1].declarations[1].id
ChainValue == prog.body[1].declarations[1].init

\* Some operand of the concatenation is an HTML source.
RECURSIVE HasHtmlOperand(_)
HasHtmlOperand(e) ==
  IF e.type = "BinaryExpression"
  THEN HasHtmlOperand(e.left) \/ HasHtmlOperand(e.right)
  ELSE IsHtmlSource(e)

\* 'Unencoded input' for each operand that is an identifier without an HTML
\* name, from left to right.
RECURSIVE OperandFindings(_, _)
OperandFindings(e, ref) ==
  IF e.type = "BinaryExpression"
  THEN OperandFindings(e.left, Append(ref, <<"left", 0>>))
         \o OperandFindings(e.right, Append(ref, <<"right", 0>>))
  ELSE IF e.type = "Identifier" /\ ~any(e.name, htmlVariableRulesRegex)
  THEN << Report(ref, "UnencodedInput") >>
  ELSE << >>

\* C6: when the frame of  var NAME = a + b + ...  is validated (NAME is an
\* HTML name, or an operand is an HTML source), every operand of the
\* concatenation, however nested, is tested: after the finding for a name
\* that is no HTML name, the findings are exactly one 'Unencoded input' per
\* identifier operand without an HTML name, and none for a literal; a
\* declarator that is neither HTML-named nor tainted yields no finding.
C6_EachOperandTested ==
  (Done /\ IsChainDeclaration)
    => reports =
         IF any(ChainName.name, htmlVariableRulesRegex)
         THEN OperandFindings(ChainValue, Append(FirstDeclarator, <<"init", 0>>))
         ELSE IF HasHtmlOperand(ChainValue)
         THEN NonHtmlVariableAtName
                \o OperandFindings(ChainValue, Append(FirstDeclarator, <<"init", 0>>))
         ELSE << >>

\* var html = "<b" + x;  ends with the one finding at the right operand.
C6_Witness ==
  /\ Done /\ IsChainDeclaration
  /\ any(ChainName.name, htmlVariableRulesRegex)
  /\ ChainValue.left.type = "Literal"
  /\ ChainValue.right.type = "Identifier"
  /\ reports = << Report(FirstDeclarator \o << <<"init", 0>>, <<"right", 0>> >>,
                         "UnencodedInput") >>

\* The sink-shaped node kinds: those whose enter handler pushes a frame.
SinkTypes == PushTypes \cup {"CallExpression"}

\* The sink-shaped nodes entered by events i..pc-1 and not exited before
\* pc, in the order they were entered.
RECURSIVE OpenSinksFrom(_)
OpenSinksFrom(i) ==
  IF i >= pc THEN << >>
  ELSE (IF /\ events[i].kind = "enter"
           /\ TypeOf(events[i].node) \in SinkTypes
           /\ ~\E j \in (i + 1)..(pc - 1) :
                 events[j].kind = "exit" /\ events[j].node = events[i].node
        THEN << events[i].node >> ELSE << >>)
       \o OpenSinksFrom(i + 1)

StackNodes == [k \in 1..Len(exprStack) |-> exprStack[k].node]

\* The traversal stands between two top-level statements (or before the
\* first, or after the last).
BetweenStatements ==
  \/ pc > Len(events)
  \/ Len(Event.node) = 0
  \/ Len(Event.node) = 1 /\ Event.kind = "enter"

\* An exit event of a sink-shaped node finds that node's frame on top.
ExitFindsOwnFrame ==
  (/\ pc <= Len(events) /\ Event.kind = "exit"
   /\ TypeOf(Event.node) \in SinkTypes)
    => /\ Len(exprStack) > 0
       /\ exprStack[Len(exprStack)].node = Event.node

C8_NoHandlerFaults == ~fault

\* The policy an uncached lookup finds: the first configured name among the
\* node's rule names, else the empty policy.
Uncached(node) == FirstRules(functionRules, getRuleNames(node))

\* C9: whatever was looked up before, the policy a lookup returns for a
\* node is the policy an uncached lookup of that node returns.
C9_CachedEqualsUncached ==
  lastNode # NoLookup => lastRules = Uncached(lastNode)

\* The other half of C9: an entry of the cache, once written, is neither
\* changed nor removed.
CacheAppendOnly ==
  [][\A k \in DOMAIN cache : k \in DOMAIN cache' /\ cache'[k] = cache[k]]_vars

\* The names along a member-access chain, from its root to its last
\* property, and whether the chain reaches a root that is no member of
\* anything (an identifier or a call).  A computed segment and a call
\* segment either cut the chain (cut = TRUE), or the computed segment is
\* passed over and the call contributes the name of its callee.
CutChain == [names |-> << >>, rooted |-> FALSE]

RECURSIVE ChainOf(_, _)
ChainOf(e, cut) ==
  CASE e.type = "Identifier" -> [names |-> << e.name >>, rooted |-> TRUE]
    [] e.type = "MemberExpression" /\ ~e.computed ->
         [ChainOf(e.object, cut) EXCEPT !.names = Append(@, e.property.name)]
    [] e.type = "MemberExpression" /\ e.computed ->
         IF cut THEN CutChain ELSE ChainOf(e.object, cut)
    [] e.type = "CallExpression" ->
         IF cut \/ e.callee.type # "Identifier" THEN CutChain
         ELSE [names |-> << e.callee.name >>, rooted |-> TRUE]
    [] OTHER -> CutChain

\* The full dotted name first, then its trailing suffixes; every candidate
\* carries a leading dot except the full name of a rooted chain.
CandidatesOf(chain) ==
  [i \in 1..Len(chain.names) |->
     (IF i = 1 /\ chain.rooted THEN << >> ELSE << "." >>)
       \o JoinDot(SubSeq(chain.names, i, Len(chain.names)))]

Unwrapped(node) == IF node.type = "CallExpression" THEN node.callee ELSE node

\* The policy of the first configured candidate, else the empty policy.
PolicyOfFirst(cands) ==
  IF \E i \in 1..Len(cands) : cands[i] \in DOMAIN functionRules
  THEN functionRules[
         cands[CHOOSE i \in 1..Len(cands) :
                 /\ cands[i] \in DOMAIN functionRules
                 /\ \A j \in 1..(i - 1) : cands[j] \notin DOMAIN functionRules]]
  ELSE EmptyRules

\* C10 (as stated): on a cache miss the lookup returns the policy of the
\* most specific configured candidate, the candidates being the dotted
\* names of the chain cut at the first computed or non-identifier segment.
C10_ChainCutAtComputed ==
  (lastNode # NoLookup /\ ~lastHit)
    => lastRules = PolicyOfFirst(CandidatesOf(ChainOf(Unwrapped(lastNode), TRUE)))

\* C10 (amended): on a cache miss the lookup returns the policy of the most
\* specific configured candidate, else the empty policy.  The candidates
\* are the full dotted name and its dot-prefixed trailing suffixes of the
\* member-access chain, where a computed segment is passed over (a[b].c has
\* the candidates a.c and .c), a call segment contributes the name of its
\* callee and ends the chain (f().c has f.c and .c), and any other segment
\* without an identifier ends the chain, leaving dot-prefixed names only.
C10_ComputedSegmentsSkipped ==
  (lastNode # NoLookup /\ ~lastHit)
    => lastRules = PolicyOfFirst(CandidatesOf(ChainOf(Unwrapped(lastNode), FALSE)))

\* a[b].c resolved, on a miss, to the policy configured for a.c.
C10_Witness ==
  /\ lastNode = MemberExpression(ComputedMember(IdA, IdB), IdC)
  /\ ~lastHit
  /\ Str_ac \in DOMAIN functionRules
  /\ lastRules = PolicyOf(Str_ac)

\* The identifier a node is resolved to: a call is unwrapped to its callee,
\* then a member access to its object or to its property; which of the two
\* a computed access (byComputed) and a non-computed access (byPlain) give
\* is the parameter.  NullNode when what is left is no identifier.
ResolvedBy(node, byComputed, byPlain) ==
  LET inner == IF node.type = "CallExpression" THEN node.callee ELSE node
      last == IF inner.type = "MemberExpression"
              THEN inner[IF inner.computed THEN byComputed ELSE byPlain]
              ELSE inner
  IN  IF last.type = "Identifier" THEN last ELSE NullNode

HasHtmlName(id) == id # NullNode /\ any(id.name, htmlVariableRulesRegex)

\* C11 (as stated): isHtmlVariable(node) is true exactly when the
\* identifier reached by unwrapping a call to its callee, a non-computed
\* member access to its object and a computed member access to its property
\* exists and has a name matching an HTML-variable pattern.
C11_ObjectOfPlainAccess ==
  answer.op = "isHtmlVariable"
    => answer.v = HasHtmlName(ResolvedBy(Node(subject), "property", "object"))

\* C11 (amended): isHtmlVariable(node) is true exactly when the identifier
\* reached by unwrapping a call to its callee, a non-computed member access
\* to its property (x.html gives html) and a computed member access to its
\* object (html[x] gives html) exists and has a name matching an
\* HTML-variable pattern; it is false whenever no identifier is reached
\* (`this`, a literal, a computed access whose object is no identifier, a
\* call of a call).
C11_PropertyOfPlainAccess ==
  answer.op = "isHtmlVariable"
    => answer.v = HasHtmlName(ResolvedBy(Node(subject), "object", "property"))

\* x.html is an HTML variable by its property.
C11_Witness ==
  /\ answer.op = "isHtmlVariable"
  /\ Node(subject) = MemberExpression(Identifier(Str_x), Identifier(Str_html))
  /\ answer.v

\* A computed access whose object is no identifier resolves to nothing.
C11_WitnessUnresolved ==
  /\ answer.op = "isHtmlVariable"
  /\ Node(subject) = ComputedMember(ThisExpression, Identifier(Str_html))
  /\ ~answer.v

\* The policy configured for a call or callee, looked up without the cache.
PolicyFor(node) == FirstRules(functionRules, getRuleNames(node))

\* The active context's policy: that of the frame's call, else none.
TargetPolicy(frame) ==
  IF TypeOf(frame) = "CallExpression" THEN PolicyFor(Node(frame)) ELSE EmptyRules

\* The resolved name of a terminal: `this`, the name of the identifier it
\* resolves to, or the empty name.
ResolvedName(node) ==
  IF node.type = "ThisExpression" THEN Str_this
  ELSE IF ResolvedBy(node, "object", "property") = NullNode THEN Str_empty
  ELSE ResolvedBy(node, "object", "property").name

\* The callee passes the HTML-output test: by policy flag or by its dotted
\* name matching an HTML-function pattern.
PassesHtmlOutputTest(callee) ==
  PolicyFor(callee).htmlOutput \/ any(getFullItemName(callee), htmlFunctionRules)

\* The six ways a terminal is safe in the context of a target policy.
TerminalIsSafe(t, policy) ==
  \/ isCommentedSafe(t)
  \/ policy.safeAll
  \/ ResolvedName(Node(t)) \in policy.safe
  \/ TypeOf(t) \in {"Literal", "FunctionExpression"}
  \/ /\ TypeOf(t) \in {"Identifier", "MemberExpression"}
     /\ HasHtmlName(ResolvedBy(Node(t), "object", "property"))
  \/ TypeOf(t) = "CallExpression" /\ PassesHtmlOutputTest(Node(t).callee)

TerminalFinding(t, policy) ==
  IF TerminalIsSafe(t, policy) THEN << >>
  ELSE IF TypeOf(t) = "CallExpression"
  THEN << Report(Child(t, "callee"), "UnencodedReturnValue") >>
  ELSE << Report(t, "UnencodedInput") >>

\* The terminals of a validated input; a function or object literal as the
\* input is not examined.
TerminalsOf(input) ==
  IF TypeOf(input) \in {"FunctionExpression", "ObjectExpression"} THEN << >>
  ELSE getDescendants([children |-> <<>>, cache |-> <<>>, fault |-> FALSE],
                      input, FALSE).children

FindingsOfTerminals(ts, policy) ==
  Flatten([i \in 1..Len(ts) |-> TerminalFinding(ts[i], policy)])

FindingsOfInputs(inputs, policy) ==
  Flatten([i \in 1..Len(inputs) |->
             FindingsOfTerminals(TerminalsOf(inputs[i]), policy)])

\* The expected terminal findings of the frame on top of the stack.
TerminalFindingsOf(frame) ==
  FindingsOfInputs(CheckedInputs(frame, TypeOf(frame)), TargetPolicy(frame))

IsTerminalFinding(r) == r.message \in {"UnencodedInput", "UnencodedReturnValue"}

\* The findings a step adds.
NewReports == SubSeq(reports', Len(reports) + 1, Len(reports'))

\* The frame on top is validated when it is popped: tainted or an HTML sink
\* by naming, not comment-exempt, and (for a return or an arrow function)
\* inside a function that has a name.
IsValidated(expr) ==
  /\ expr.xss \/ usesHtml(cache, expr.node).v
  /\ ~isCommentedSafe(expr.node)
  /\ TypeOf(expr.node) \in {"ReturnStatement", "ArrowFunctionExpression"}
       => getParentFunctionIdentifier(expr.node) # NullRef

\* The step is the exit handler of a sink-shaped node, and it ends normally.
IsExitStep ==
  /\ Running /\ Event.kind = "exit" /\ TypeOf(Event.node) \in ExitTypes
  /\ pc' = pc + 1 /\ ~fault'
  /\ Len(exprStack) > 0

\* C12: when a frame is popped and validated, each terminal of each of its
\* inputs gets exactly one finding if it is safe in none of the six ways
\* (commented safe, allowlist `true`, resolved name in the allowlist,
\* literal or function expression, identifier or member access with an HTML
\* name, call of an HTML-output callee) and none otherwise: 'Unencoded
\* return value' at the callee for a call, 'Unencoded input' at the
\* terminal otherwise, in the order of the terminals; a frame that is not
\* validated adds no finding.
C12_OneFindingPerUnsafeTerminal ==
  [][IsExitStep
       => IF IsValidated(exprStack[Len(exprStack)])
          THEN SelectSeq(NewReports, IsTerminalFinding)
                 = TerminalFindingsOf(exprStack[Len(exprStack)].node)
          ELSE reports' = reports]_vars

\* html = f(x): the call f(x) is a terminal without an HTML-output callee,
\* reported at its callee.
C12_Witness ==
  /\ Done /\ ~fault
  /\ prog = Stmt(AssignmentExpression(IdHtml, CallExpression(IdF, <<IdX>>)))
  /\ functionRules = defaultFunctionRules
  /\ reports = << Report(FirstExpression \o << <<"right", 0>>, <<"callee", 0>> >>,
                         "UnencodedReturnValue") >>

\* f(x) with x on the allowlist of the HTML-input function f: no finding.
C12_WitnessAllowlist ==
  /\ Done /\ ~fault
  /\ prog = Stmt(CallExpression(IdF, <<IdX>>))
  /\ functionRules = RulesFSafe
  /\ reports = << >>

\* The left side, id or key of an assignment, declarator or property.
StoreTarget(frame) ==
  CASE TypeOf(frame) = "AssignmentExpression" -> Child(frame, "left")
    [] TypeOf(frame) = "VariableDeclarator" -> Child(frame, "id")
    [] TypeOf(frame) = "Property" -> Child(frame, "key")
    [] OTHER -> NullRef

PassesNamingTest(ref) == HasHtmlName(ResolvedBy(Node(ref), "object", "property"))

IsNonHtmlVariableAt(r, ref) == r.message = "NonHtmlVariable" /\ r.node = ref

\* C13: when an assignment, declarator or property frame is popped and
\* validated, 'Non-HTML variable' is reported at its left side, id or key
\* if and only if that node, carrying no safe comment, fails the
\* variable-naming test, whatever its shape (a string-literal property key
\* included).
C13_NonHtmlVariableIffNamingFails ==
  [][(/\ IsExitStep
      /\ TypeOf(Event.node) \in
           {"AssignmentExpression", "VariableDeclarator", "Property"}
      /\ IsValidated(exprStack[Len(exprStack)])
      /\ ~isCommentedSafe(StoreTarget(Event.node)))
       => ((\E i \in 1..Len(NewReports) :
              IsNonHtmlVariableAt(NewReports[i], StoreTarget(Event.node)))
            <=> ~PassesNamingTest(StoreTarget(Event.node)))]_vars

\* The position of a child under its parent carries the child's value into
\* the parent's: by the kinds and positions listed, and (unless listedOnly)
\* any position under a parent of another kind except a function
\* expression.
ValueCarrying(child, parent, listedOnly) ==
  LET t == TypeOf(parent)
      field == child[Len(child)][1]
  IN  CASE t = "CallExpression" -> field = "arguments"
        [] t = "AssignmentExpression" -> field = "right"
        [] t = "VariableDeclarator" -> field = "init"
        [] t = "Property" -> field = "value"
        [] t = "ArrayExpression" -> field = "elements"
        [] t = "ConditionalExpression" -> field \in {"consequent", "alternate"}
        [] t = "ArrowFunctionExpression" -> field = "body"
        [] t = "FunctionExpression" -> FALSE
        [] OTHER -> ~listedOnly

\* Every step from the leaf up to the node of the frame on top is
\* value-carrying.
ChainHolds(leaf, top, listedOnly) ==
  /\ IsWithin(leaf, top) /\ leaf # top
  /\ \A k \in (Len(top) + 1)..Len(leaf) :
       ValueCarrying(SubSeq(leaf, 1, k), SubSeq(leaf, 1, k - 1), listedOnly)

\* The step is the enter handler of a leaf (a literal, an identifier or a
\* call), and it ends normally.
IsLeafStep ==
  /\ Running /\ Event.kind = "enter"
  /\ TypeOf(Event.node) \in {"Literal", "Identifier", "CallExpression"}
  /\ pc' = pc + 1 /\ ~fault'

\* The step changes the tainted flag of a frame that is on the stack.
FlagChanges ==
  \E k \in 1..Len(exprStack) : exprStack'[k].xss # exprStack[k].xss

\* C14 (as stated): a leaf changes a frame's tainted flag only if every
\* step from the leaf up to the node of the frame on top is one of: call
\* argument, assignment right side, declarator init, property value, array
\* element, conditional consequent or alternate, arrow body.
C14_ListedPositionsOnly ==
  [][(IsLeafStep /\ FlagChanges)
       => ChainHolds(Event.node, exprStack[Len(exprStack)].node, TRUE)]_vars

\* C14 (amended): a leaf changes a frame's tainted flag only if every step
\* from the leaf up to the node of the frame on top is value-carrying,
\* where under a call only an argument is, under an assignment the right
\* side, under a declarator the init, under a property the value, under an
\* array an element, under a conditional the consequent or alternate,
\* under an arrow function the body, under a function expression nothing,
\* and under a parent of any other kind (concatenation operand, member
\* access object or property, returned expression) every position is.
C14_OtherParentsCarry ==
  [][(IsLeafStep /\ FlagChanges)
       => ChainHolds(Event.node, exprStack[Len(exprStack)].node, FALSE)]_vars

\* var x = "<b" + y: the literal, an operand of the concatenation, has just
\* tainted the declarator's frame.
C14_Witness ==
  /\ prog = Var(<<VariableDeclarator(IdX, BinaryExpression(LitHtml, IdY))>>)
  /\ pc > 1 /\ events[pc - 1].kind = "enter"
  /\ events[pc - 1].node = FirstDeclarator \o << <<"init", 0>>, <<"left", 0>> >>
  /\ exprStack = << [node |-> FirstDeclarator, xss |-> TRUE] >>

\* The leaf a candidate resolution is run for, and the stack it walks: the
\* entered node and the stack as it is, or (when an array literal is
\* exited) the array and the stack without the array's own frame.
IsResolutionStep ==
  /\ Running /\ pc' = pc + 1 /\ ~fault'
  /\ \/ /\ Event.kind = "enter"
        /\ TypeOf(Event.node) \in {"Literal", "Identifier", "CallExpression"}
     \/ Event.kind = "exit" /\ TypeOf(Event.node) = "ArrayExpression"

WalkedStack == IF Event.kind = "exit" THEN Popped(exprStack) ELSE exprStack

\* The leaf lies in the callee (hence object) position of the call.
InCalleeOf(call, leaf) == leaf[Len(call) + 1][1] = "callee"

\* The resolver goes on past the frame: a passthrough call that is
\* transparent in both positions, or in the position the leaf occupies
\* relative to the frame's own call.
PassesFrame(frameNode, leaf) ==
  /\ TypeOf(frameNode) = "CallExpression"
  /\ PolicyFor(Node(frameNode)).passthrough
  /\ \/ PolicyFor(Node(frameNode)).obj /\ PolicyFor(Node(frameNode)).args
     \/ InCalleeOf(frameNode, leaf) /\ PolicyFor(Node(frameNode)).obj
     \/ ~InCalleeOf(frameNode, leaf) /\ PolicyFor(Node(frameNode)).args

\* The first frame from the top that the resolver does not go past (0 when
\* there is none).
RECURSIVE FirstNotPassed(_, _, _)
FirstNotPassed(stack, ptr, leaf) ==
  IF ptr = 0 THEN 0
  ELSE IF PassesFrame(stack[ptr].node, leaf) THEN FirstNotPassed(stack, ptr - 1, leaf)
  ELSE ptr

\* C15: a candidate resolution taints no frame but the first one, from the
\* top of the stack, that is not a call, or is a call that is neither a
\* full passthrough nor a partial passthrough transparent in the position
\* the leaf occupies relative to that same call, also with further calls
\* nested between the leaf and the frame.
C15_PositionRelativeToFrame ==
  [][IsResolutionStep
       => \A k \in 1..Len(WalkedStack) :
            (exprStack'[k].xss /\ ~exprStack[k].xss)
              => k = FirstNotPassed(WalkedStack, Len(WalkedStack), Event.node)]_vars

\* How the extraction started at `from` reaches the node `from \o rest`,
\* step by step: "top" (reached, not having recursed), "inner" (reached
\* after recursing into a concatenation or an array) or "none" (not
\* reached: the way leads through a terminal or a position that is not
\* unfolded).
RECURSIVE ReachedAs(_, _, _)
ReachedAs(from, rest, recursed) ==
  IF Len(rest) = 0 THEN (IF recursed THEN "inner" ELSE "top")
  ELSE LET t == TypeOf(from)
           field == Head(rest)[1]
           next == Append(from, Head(rest))
       IN  IF t = "CallExpression" /\ PolicyFor(Node(from)).passthrough
           THEN IF /\ field = "callee" /\ PolicyFor(Node(from)).obj
                   /\ Len(rest) >= 2 /\ rest[2][1] = "object"
                THEN ReachedAs(Append(next, rest[2]), Tail(Tail(rest)), recursed)
                ELSE IF field = "arguments" /\ PolicyFor(Node(from)).args
                THEN ReachedAs(next, Tail(rest), recursed)
                ELSE "none"
           ELSE IF t = "BinaryExpression"
           THEN ReachedAs(next, Tail(rest), TRUE)
           ELSE IF t = "ArrayExpression" /\ ~recursed
           THEN ReachedAs(next, Tail(rest), TRUE)
           ELSE IF t = "ConditionalExpression" /\ field \in {"consequent", "alternate"}
           THEN ReachedAs(next, Tail(rest), recursed)
           ELSE IF t = "AssignmentExpression" /\ field = "left"
           THEN ReachedAs(next, Tail(rest), recursed)
           ELSE "none"

\* The array literals at or below the input of the extraction, and how
\* each is reached.
ArraysBelow(input) ==
  { ref \in NodeRefs : IsWithin(ref, input) /\ TypeOf(ref) = "ArrayExpression" }

ReachedFrom(input, ref) ==
  ReachedAs(input, SubSeq(ref, Len(input) + 1, Len(ref)), FALSE)

IsChild(children, ref) == \E i \in 1..Len(children) : children[i] = ref

\* The present elements of an array literal.
ElementsOf(ref) ==
  { ChildList(ref, "elements")[i] : i \in 1..Len(Node(ref).elements) } \ {NullRef}

IsExtraction == answer.op = "getDescendants" /\ ~answer.fault

\* C16 (as stated): an array literal reached by the extraction is a
\* terminal itself exactly when it is reached without recursion (as the
\* top-level input); reached through recursion it is not a terminal.
C16_TerminalAtTopLevelOnly ==
  IsExtraction
    => \A ref \in ArraysBelow(subject) :
         ReachedFrom(subject, ref) # "none"
           => (IsChild(answer.children, ref) <=> ReachedFrom(subject, ref) = "top")

\* C16 (amended): an array literal reached by the extraction without
\* recursion (it is the input, a branch of a conditional input, or the
\* receiver or an argument of a passthrough call input) is not a terminal:
\* the extraction goes into its elements, of which the literals,
\* identifiers and array literals are terminals.  An array literal reached
\* after recursing into a concatenation or into another array is a terminal
\* itself, and none of its elements is.
C16_TerminalOnceRecursed ==
  IsExtraction
    => \A ref \in ArraysBelow(subject) :
         /\ ReachedFrom(subject, ref) = "top"
              => /\ ~IsChild(answer.children, ref)
                 /\ \A e \in ElementsOf(ref) :
                      TypeOf(e) \in {"Literal", "Identifier", "ArrayExpression"}
                        => IsChild(answer.children, e)
         /\ ReachedFrom(subject, ref) = "inner"
              => /\ IsChild(answer.children, ref)
                 /\ \A e \in ElementsOf(ref) : ~IsChild(answer.children, e)

\* [[x], y] as the input: the terminals are the inner array and y.
C16_Witness ==
  /\ IsExtraction
  /\ Node(subject) = ArrayExpression(<<ArrayExpression(<<IdX>>), IdY>>)
  /\ answer.children = << Append(subject, <<"elements", 1>>),
                          Append(subject, <<"elements", 2>>) >>

\* The step is the enter handler of a call.
IsCallEnter ==
  /\ Running /\ Event.kind = "enter" /\ TypeOf(Event.node) = "CallExpression"
  /\ pc' = pc + 1

\* The walk for a safe comment, run only when the stack is not empty,
\* reads a token that does not exist.
CommentWalkFaults(node) == Len(exprStack) > 0 /\ CommentedSafe(node) = "fault"

\* The entered call is an HTML-output call that can infect the stack: its
\* callee passes the HTML-output test, it carries no safe comment, and the
\* parameter chain up to the frame on top holds.
CallInfects(node) ==
  /\ Len(exprStack) > 0
  /\ ~isCommentedSafe(node)
  /\ ChainHolds(node, exprStack[Len(exprStack)].node, FALSE)
  /\ PassesHtmlOutputTest(Node(node).callee)

\* The stack with the candidate frame tainted; the candidate is resolved
\* against that very stack.
WithCandidateTainted(stack, node) ==
  MarkXss(stack, reports, getXssCandidateParent(cache, stack, node)).stack

\* C17: entering a call whose callee is an HTML-output function resolves
\* the candidate against the stack as it is before the call's own frame is
\* pushed; the frame tainted, if any, is that of a proper ancestor of the
\* call, and the call's frame is pushed afterwards, untainted.  Entering
\* any other call only pushes its frame.
C17_ResolvedBeforePush ==
  [][(IsCallEnter /\ ~CommentWalkFaults(Event.node))
       => /\ ~fault'
          /\ exprStack' =
               Append(IF CallInfects(Event.node)
                      THEN WithCandidateTainted(exprStack, Event.node)
                      ELSE exprStack,
                      [node |-> Event.node, xss |-> FALSE])
          /\ \A k \in 1..Len(exprStack) :
               /\ exprStack'[k].node = exprStack[k].node
               /\ exprStack[k].node # Event.node
               /\ IsWithin(Event.node, exprStack[k].node)]_vars

\* html = fAsHtml(x): the call has just been entered, the assignment's
\* frame is tainted and the call's own frame is on top, untainted.
C17_Witness ==
  /\ prog = Stmt(AssignmentExpression(IdHtml, CallExpression(IdFAsHtml, <<IdX>>)))
  /\ pc > 1 /\ events[pc - 1].kind = "enter"
  /\ events[pc - 1].node = Append(FirstExpression, <<"right", 0>>)
  /\ exprStack = << [node |-> FirstExpression, xss |-> TRUE],
                    [node |-> Append(FirstExpression, <<"right", 0>>), xss |-> FALSE] >>

\* The frames a resolution step leaves on the stack besides the frame an
\* entered call pushes for itself.
WalkedStackAfter ==
  IF Event.kind = "enter" /\ TypeOf(Event.node) = "CallExpression"
  THEN Popped(exprStack')
  ELSE exprStack'

\* The frames of the walked stack whose flag the step changes.
ChangedFrames ==
  { k \in 1..Len(WalkedStack) : exprStack'[k].xss # exprStack[k].xss }

\* No frame that stays on the stack loses its tainted flag.
FlagsKept ==
  \A k \in 1..Len(exprStack) :
    (k <= Len(exprStack') /\ exprStack'[k].node = exprStack[k].node)
      => (exprStack[k].xss => exprStack'[k].xss)

\* C18: a candidate resolution (on entering a literal, an identifier or a
\* call, or on exiting an array literal) sets the tainted flag of at most
\* one frame of the stack it walks and changes nothing else: the frames
\* and their order stay as they are apart from the array's own pop and the
\* call's own push, no other flag changes, no finding is reported; and in
\* every step of the traversal a frame that stays on the stack keeps a
\* tainted flag that is set.
C18_AtMostOneFrameTainted ==
  [][/\ FlagsKept
     /\ IsResolutionStep
          => /\ reports' = reports
             /\ Len(WalkedStackAfter) = Len(WalkedStack)
             /\ \A k \in 1..Len(WalkedStack) :
                  exprStack'[k].node = exprStack[k].node
             /\ Cardinality(ChangedFrames) <= 1
             /\ \A k \in ChangedFrames : exprStack'[k].xss]_vars

\* html = f("<b"): the literal has just tainted the call's frame and left
\* the assignment's frame as it was.
C18_Witness ==
  /\ prog = Stmt(AssignmentExpression(IdHtml, CallExpression(IdF, <<LitHtml>>)))
  /\ pc > 1 /\ events[pc - 1].kind = "enter"
  /\ TypeOf(events[pc - 1].node) = "Literal"
  /\ exprStack = << [node |-> FirstExpression, xss |-> FALSE],
                    [node |-> Append(FirstExpression, <<"right", 0>>), xss |-> TRUE] >>

\* x = ["<b"]: the array has just been exited, its frame is popped and
\* the assignment's frame tainted.
C18_WitnessArray ==
  /\ prog = Stmt(AssignmentExpression(IdX, ArrayExpression(<<LitHtml>>)))
  /\ pc > 1 /\ events[pc - 1].kind = "exit"
  /\ TypeOf(events[pc - 1].node) = "ArrayExpression"
  /\ exprStack = << [node |-> FirstExpression, xss |-> TRUE] >>

\* The traversal is about to enter a leaf (a literal, an identifier or a
\* call) while the stack is not empty: the handler runs the parameter-chain
\* walk unless the leaf is commented safe.
WalkRuns ==
  /\ Running /\ Event.kind = "enter"
  /\ TypeOf(Event.node) \in {"Literal", "Identifier", "CallExpression"}
  /\ Len(exprStack) > 0

\* C19: whenever the parameter-chain walk can run for a leaf, the node of
\* the frame on top is a proper syntactic ancestor of the leaf, and the
\* walk ends below the root: with a positive answer at that node when
\* every step up to it is value-carrying, with a negative answer at the
\* first step that is not.
C19_WalkEndsAtTopFrame ==
  WalkRuns
    => /\ IsWithin(Event.node, exprStack[Len(exprStack)].node)
       /\ Event.node # exprStack[Len(exprStack)].node
       /\ canInfectXss(exprStack, Event.node) =
            IF ChainHolds(Event.node, exprStack[Len(exprStack)].node, FALSE)
            THEN "true" ELSE "false"

\* A literal three levels below the node of the frame on top has been
\* entered, and its walk up to that node has tainted the frame.
C19_Witness ==
  /\ ~fault /\ pc > 1 /\ Len(exprStack) > 0
  /\ events[pc - 1].kind = "enter"
  /\ TypeOf(events[pc - 1].node) = "Literal"
  /\ Len(events[pc - 1].node) >= Len(exprStack[Len(exprStack)].node) + 3
  /\ ChainHolds(events[pc - 1].node, exprStack[Len(exprStack)].node, FALSE)
  /\ exprStack[Len(exprStack)].xss

====
